---- MODULE Spec2Model ----
(***************************************************************************)
(* Vectorized batch engine of coinrun.cpp: the handle registry (h2s), the  *)
(* shared work queue (workers_todo), the pool of stepping threads, and the *)
(* C interface vec_create / vec_step_async_discrete / vec_wait /           *)
(* vec_close / coinrun_shutdown.                                           *)
(*                                                                         *)
(* Threads: NumWorkers stepping threads, one calling thread that issues    *)
(* the vec_* calls, and one control thread that calls coinrun_shutdown.    *)
(* Critical sections that run under h2s_mutex or step_mutex alone and      *)
(* block on nothing are single steps; the body of a tick, which runs under *)
(* the instance's state_mutex, is entered and left in separate steps.      *)
(*                                                                         *)
(* The physics of one tick (Monster::step, Agent::step) is represented in  *)
(* this part of the model by its outcome on the fields the engine reads:   *)
(* the reward added and whether the maze became terminated.  assert() is   *)
(* taken as compiled in: a failed assert aborts the process.               *)
(*                                                                         *)
(* The later parts model one State on its own, in the variable game: the   *)
(* body of a tick with Agent::step, Agent::sub_step and Monster::step on   *)
(* floats kept as integers of 1/1000000, and the level generator of        *)
(* state_reset (RandomMazeGenerator) step by step.                         *)
(***************************************************************************)
EXTENDS Integers, Sequences, FiniteSets, TLC

(* ------------------------------ bounds -------------------------------- *)
NumWorkers == 2      \* threads given to init(threads)
MaxGroups == 1       \* number of vec_create calls explored
MaxEnvs == 2         \* largest nenvs given to vec_create
MaxQueue == 2        \* longest workers_todo explored when a group is re-submitted early
MaxReward == 1       \* largest per-instance reward accumulated between two vec_wait calls
MaxHandles == 2      \* number of handles vec_create hands out when groups are created and closed in turn

(* ------------------------- program constants -------------------------- *)
NUM_ACTIONS == 7
HANDLE_SEQ_START == 100

DISCRETE_ACTIONS_MirroredX ==
    << 0, 0,   -1, 0,   1, 0,   0, 1,   -1, 1,   1, 1,   0, -1 >>

\* DISCRETE_ACTIONS[NUM_ACTIONS * 2], 1-based here
DISCRETE_ACTIONS ==
    << 0, 0,   1, 0,   -1, 0,   0, 1,   1, 1,   -1, 1,   0, -1 >>

Workers == 1..NumWorkers
Handles == HANDLE_SEQ_START..(HANDLE_SEQ_START + MaxHandles - 1)
\* values a caller may pass as a handle: 0, every handle vec_create can
\* return, and one that it never returns
HandleInputs == {0} \cup Handles \cup {HANDLE_SEQ_START + MaxHandles}
\* values a caller may pass as actions[e]: the seven valid indices and one on each side
ActionInputs == (-1)..NUM_ACTIONS
NoState == << >>

\* what one tick's monsters and agent add to a.reward and whether they set
\* maze->is_terminated: nothing; a coin or gem (reward += 1.0f); the agent
\* killed or timed out (is_terminated = true, DIE_PENALTY = 0.0); and, when
\* data is collected, a frame of the animation that follows the end of an
\* episode
TickOutcomes ==
    { [rew |-> 0, term |-> FALSE, anim |-> FALSE], [rew |-> 1, term |-> FALSE, anim |-> FALSE],
      [rew |-> 0, term |-> TRUE, anim |-> FALSE], [rew |-> 0, term |-> FALSE, anim |-> TRUE] }

VARIABLES
    h2s,             \* handles registered in the map h2s
    handle_seq,      \* next handle
    vstates,         \* handle -> sequence of State records (<< >> before vec_create)
    workers_todo,    \* the shared queue: sequence of <<handle, e>>
    shutdown_flag,
    all_threads,     \* number of threads still in all_threads
    wpc,             \* worker -> position in stepping_thread
    todo,            \* worker -> todo_state (<<handle, e>>) or NoState
    cpc,             \* position of the calling thread
    ch,              \* handle of the call in progress
    ci,              \* loop index e of vec_wait's copy loop
    out,             \* (rew, done, new_level) entries written by vec_wait so far
    pending,         \* handle -> the caller submitted a batch and has not waited for it
    spc,             \* position of the thread calling coinrun_shutdown
    aborted,         \* an assert failed: the process is gone
    ignored,         \* vec_close returned at "if (handle == 0) return" without a lookup
    game             \* one State seen by the body of a tick: maze, monsters, agent

\* what the actions of the batch engine other than vec_close leave alone
outside == << ignored, game >>

vars == << h2s, handle_seq, vstates, workers_todo, shutdown_flag, all_threads,
           wpc, todo, cpc, ch, ci, out, pending, spc, aborted, ignored, game >>

(* ------------------------------ State --------------------------------- *)
\* struct State after vec_create: state_reset, then agent_ready = false
NewState ==
    [ agent_ready |-> FALSE, step_in_progress |-> FALSE, state_mutex |-> FALSE,
      reward |-> 0, game_over |-> FALSE, is_new_level |-> TRUE,
      is_terminated |-> FALSE, action_dx |-> 0, action_dy |-> 0,
      waited |-> FALSE ]

\* a state_reset whose new Maze does not say it is new
state_reset_OldLevel(s) ==
    [s EXCEPT !.is_terminated = FALSE, !.action_dx = 0, !.action_dy = 0]

\* state_reset: a new Maze (is_new_level = true, is_terminated = false) and
\* Agent::reset (action_dx = action_dy = 0); a.reward is not touched
state_reset(s) ==
    [s EXCEPT !.is_new_level = TRUE, !.is_terminated = FALSE,
              !.action_dx = 0, !.action_dy = 0]

Nenvs(h) == Len(vstates[h])
St(i) == vstates[i[1]][i[2]]
InstancesOf(h) == { <<h, e>> : e \in 1..Nenvs(h) }
Instances == UNION { InstancesOf(h) : h \in Handles }

\* number of entries of the queue that are instance i
InQueue(i) == Cardinality({ k \in 1..Len(workers_todo) : workers_todo[k] = i })
\* workers that hold instance i as todo_state
Holders(i) == { w \in Workers : todo[w] = i }

\* belongs_to.lock() succeeds while some shared_ptr to the VectorOfStates is
\* left: the registry entry, the local of a vec_* call in progress, or the
\* local of a worker inside the body of a tick
Alive(h) ==
    \/ h \in h2s
    \/ cpc # "idle" /\ ch = h
    \/ \E w \in Workers : wpc[w] = "body" /\ todo[w][1] = h

(* ------------------------------- Init --------------------------------- *)
\* after init(threads): the pool is running, no group exists
EngineInit ==
    /\ h2s = {}
    /\ handle_seq = HANDLE_SEQ_START
    /\ vstates = [h \in Handles |-> << >>]
    /\ workers_todo = << >>
    /\ shutdown_flag = FALSE
    /\ all_threads = NumWorkers
    /\ wpc = [w \in Workers |-> "check"]
    /\ todo = [w \in Workers |-> NoState]
    /\ cpc = "idle"
    /\ ch = HANDLE_SEQ_START
    /\ ci = 1
    /\ out = << >>
    /\ pending = [h \in Handles |-> FALSE]
    /\ spc = "idle"
    /\ aborted = FALSE
    /\ ignored = FALSE

\* the batch engine on its own: the content of a State is left to Tick
Init == EngineInit /\ game = NoState

(* --------------------------- stepping_thread -------------------------- *)
\* wakeAll on wait_for_actions: every worker asleep in wait() returns
WakeWorkers(pcs) == [w \in Workers |-> IF pcs[w] = "sleeping" THEN "check" ELSE pcs[w]]

\* if (shutdown_flag) return;
WorkerCheck(w) ==
    /\ ~aborted /\ wpc[w] = "check"
    /\ wpc' = [wpc EXCEPT ![w] = IF shutdown_flag THEN "exited" ELSE "poll"]
    /\ UNCHANGED << h2s, handle_seq, vstates, workers_todo, shutdown_flag, all_threads,
                    todo, cpc, ch, ci, out, pending, spc, aborted >>
    /\ UNCHANGED outside

\* h2s_mutex can be taken: the calling thread holds it across a call only
\* between the check of vec_wait's loop and the wait() that releases it
H2sMutexFree == cpc # "wait_presleep"

\* under h2s_mutex: wait on wait_for_actions if the queue is empty, else splice its head
WorkerPoll(w) ==
    /\ ~aborted /\ wpc[w] = "poll"
    /\ H2sMutexFree
    /\ IF workers_todo = << >>
         THEN /\ wpc' = [wpc EXCEPT ![w] = "sleeping"]
              /\ UNCHANGED << workers_todo, todo >>
         ELSE /\ todo' = [todo EXCEPT ![w] = Head(workers_todo)]
              /\ workers_todo' = Tail(workers_todo)
              /\ wpc' = [wpc EXCEPT ![w] = "mark"]
    /\ UNCHANGED << h2s, handle_seq, vstates, shutdown_flag, all_threads,
                    cpc, ch, ci, out, pending, spc, aborted >>
    /\ UNCHANGED outside

WorkerTimeout_Unbounded(w) ==
    /\ FALSE
    /\ UNCHANGED vars

\* wait_for_actions.wait(&h2s_mutex, 1000) returns after its timeout; continue
WorkerTimeout(w) ==
    /\ ~aborted /\ wpc[w] = "sleeping"
    /\ wpc' = [wpc EXCEPT ![w] = "check"]
    /\ UNCHANGED << h2s, handle_seq, vstates, workers_todo, shutdown_flag, all_threads,
                    todo, cpc, ch, ci, out, pending, spc, aborted >>
    /\ UNCHANGED outside

\* under step_mutex: assert(agent_ready); step_in_progress = true
WorkerMark(w) ==
    /\ ~aborted /\ wpc[w] = "mark"
    /\ LET i == todo[w] IN
       IF ~St(i).agent_ready
         THEN /\ aborted' = TRUE
              /\ UNCHANGED << vstates, wpc >>
         ELSE /\ vstates' = [vstates EXCEPT ![i[1]][i[2]].step_in_progress = TRUE]
              /\ wpc' = [wpc EXCEPT ![w] = "lock"]
              /\ UNCHANGED aborted
    /\ UNCHANGED << h2s, handle_seq, workers_todo, shutdown_flag, all_threads,
                    todo, cpc, ch, ci, out, pending, spc >>
    /\ UNCHANGED outside

StateMutexFree_NoLock(i) == TRUE

\* QMutexLocker lock(&todo_state->state_mutex) can be taken
StateMutexFree(i) == ~St(i).state_mutex

\* a worker that steps the instance whether or not its group is left
WorkerLock_StepsAnyway(w) ==
    /\ ~aborted /\ wpc[w] = "lock"
    /\ St(todo[w]).state_mutex = FALSE
    /\ vstates' = [vstates EXCEPT ![todo[w][1]][todo[w][2]].state_mutex = TRUE]
    /\ wpc' = [wpc EXCEPT ![w] = "body"]
    /\ UNCHANGED << h2s, handle_seq, workers_todo, shutdown_flag, all_threads,
                    todo, cpc, ch, ci, out, pending, spc, aborted, ignored, game >>

\* take state_mutex; belongs_to.lock(); if the group is gone, continue
WorkerLock(w) ==
    /\ ~aborted /\ wpc[w] = "lock"
    /\ LET i == todo[w] IN
       /\ StateMutexFree(i)
       /\ IF ~Alive(i[1])
            THEN /\ wpc' = [wpc EXCEPT ![w] = "check"]
                 /\ todo' = [todo EXCEPT ![w] = NoState]
                 /\ UNCHANGED vstates
            ELSE /\ vstates' = [vstates EXCEPT ![i[1]][i[2]].state_mutex = TRUE]
                 /\ wpc' = [wpc EXCEPT ![w] = "body"]
                 /\ UNCHANGED todo
    /\ UNCHANGED << h2s, handle_seq, workers_todo, shutdown_flag, all_threads,
                    cpc, ch, ci, out, pending, spc, aborted >>
    /\ UNCHANGED outside

\* the tick: a frame of the animation, which leaves the flags alone, or
\* else game_over = maze->is_terminated; monsters and agent step;
\* a.game_over = game_over; if (game_over) state_reset
Tick(s, o) ==
    LET game_over == s.is_terminated
        stepped == [s EXCEPT !.reward = s.reward + o.rew,
                             !.is_terminated = s.is_terminated \/ o.term,
                             !.game_over = game_over]
    IN  IF o.anim THEN s
        ELSE IF game_over THEN state_reset(stepped) ELSE stepped

\* the body of the tick under state_mutex, left when the else-branch ends
WorkerBody(w) ==
    /\ ~aborted /\ wpc[w] = "body"
    /\ LET i == todo[w] IN
       \E o \in TickOutcomes :
          /\ St(i).reward + o.rew <= MaxReward
          /\ o.anim => St(i).is_terminated
          /\ vstates' = [vstates EXCEPT ![i[1]][i[2]] =
                            [Tick(St(i), o) EXCEPT !.state_mutex = FALSE]]
    /\ wpc' = [wpc EXCEPT ![w] = "finish"]
    /\ UNCHANGED << h2s, handle_seq, workers_todo, shutdown_flag, all_threads,
                    todo, cpc, ch, ci, out, pending, spc, aborted >>
    /\ UNCHANGED outside

Finished_KeepsInProgress(s) == [s EXCEPT !.agent_ready = FALSE]

\* agent_ready = false; step_in_progress = false
Finished(s) == [s EXCEPT !.agent_ready = FALSE, !.step_in_progress = FALSE]

\* under step_mutex: assert(agent_ready); assert(step_in_progress); clear both;
\* then wait_for_step_completed.wakeAll()
WorkerFinish(w) ==
    /\ ~aborted /\ wpc[w] = "finish"
    /\ LET i == todo[w] IN
       IF ~St(i).agent_ready \/ ~St(i).step_in_progress
         THEN /\ aborted' = TRUE
              /\ UNCHANGED << vstates, wpc, todo, cpc >>
         ELSE /\ vstates' = [vstates EXCEPT ![i[1]][i[2]] = Finished(St(i))]
              /\ wpc' = [wpc EXCEPT ![w] = "check"]
              /\ todo' = [todo EXCEPT ![w] = NoState]
              /\ cpc' = IF cpc = "wait_sleeping" THEN "wait_check" ELSE cpc
              /\ UNCHANGED aborted
    /\ UNCHANGED << h2s, handle_seq, workers_todo, shutdown_flag, all_threads,
                    ch, ci, out, pending, spc >>
    /\ UNCHANGED outside

stepping_thread(w) ==
    \/ WorkerCheck(w)
    \/ WorkerPoll(w)
    \/ WorkerTimeout(w)
    \/ WorkerMark(w)
    \/ WorkerLock(w)
    \/ WorkerBody(w)
    \/ WorkerFinish(w)

(* ----------------------------- vstate_find ---------------------------- *)
\* h2s.find(handle) != h2s.end(); otherwise assert(0)
vstate_find(h) == h \in h2s

(* ------------------------------ vec_create ---------------------------- *)
NextHandle_Same(h) == h

\* handle_seq++
NextHandle(h) == h + 1

\* nenvs States, each state_reset and idle, registered under h = handle_seq++
vec_create(n) ==
    /\ ~aborted /\ cpc = "idle"
    /\ handle_seq \in Handles
    /\ vstates' = [vstates EXCEPT ![handle_seq] = [e \in 1..n |-> NewState]]
    /\ h2s' = h2s \cup {handle_seq}
    /\ handle_seq' = NextHandle(handle_seq)
    /\ pending' = [pending EXCEPT ![handle_seq] = FALSE]
    /\ UNCHANGED << workers_todo, shutdown_flag, all_threads, wpc, todo,
                    cpc, ch, ci, out, spc, aborted >>
    /\ UNCHANGED outside

(* ------------------------------- vec_close ---------------------------- *)
Erase_Keeps(reg, h) == reg

\* h2s.erase(handle)
Erase(reg, h) == reg \ {h}

\* if (handle == 0) return; vstate_find; then h2s.erase(handle)
vec_close(h) ==
    /\ ~aborted /\ cpc = "idle"
    /\ IF h = 0
         THEN /\ ignored' = TRUE
              /\ UNCHANGED << h2s, pending, aborted >>
         ELSE IF vstate_find(h)
         THEN /\ h2s' = Erase(h2s, h)
              /\ pending' = [pending EXCEPT ![h] = FALSE]
              /\ UNCHANGED << aborted, ignored >>
         ELSE /\ aborted' = TRUE
              /\ UNCHANGED << h2s, pending, ignored >>
    /\ UNCHANGED << handle_seq, vstates, workers_todo, shutdown_flag, all_threads,
                    wpc, todo, cpc, ch, ci, out, spc, game >>

(* ----------------------- vec_step_async_discrete ---------------------- *)
\* (unsigned int)a < (unsigned int)b for two's-complement ints: a negative
\* value converts to one above every non-negative value
UnsignedLess(a, b) == IF (a < 0) = (b < 0) THEN a < b ELSE b < 0

\* assert((unsigned int)actions[e] < (unsigned int)NUM_ACTIONS)
ActionValid(a) == UnsignedLess(a, NUM_ACTIONS)

\* DISCRETE_ACTIONS[2 * actions[e] + 0], DISCRETE_ACTIONS[2 * actions[e] + 1]
ActionDx(a) == DISCRETE_ACTIONS[2 * a + 1]
ActionDy(a) == DISCRETE_ACTIONS[2 * a + 2]

\* the loop runs e = 0 .. nenvs-1 and stops at the first failed assert:
\* the number of instances it gets through
Accepted(acts) ==
    LET bad == { e \in 1..Len(acts) : ~ActionValid(acts[e]) }
    IN  IF bad = {} THEN Len(acts)
        ELSE (CHOOSE e \in bad : \A f \in bad : e <= f) - 1

\* a submit that stores the control input and leaves agent_ready alone
Submitted_NotReady(s, a) ==
    [s EXCEPT !.action_dx = ActionDx(a), !.action_dy = ActionDy(a)]

\* one State after the body of the loop: the control input, agent_ready = true
Submitted(s, a) ==
    [s EXCEPT !.action_dx = ActionDx(a), !.action_dy = ActionDy(a), !.agent_ready = TRUE]

\* vstate_find; under h2s_mutex, states_mutex and each step_mutex: store the
\* action, set agent_ready, push_back; then wait_for_actions.wakeAll()
vec_step_async_discrete(h, acts) ==
    /\ ~aborted /\ cpc = "idle"
    /\ IF ~vstate_find(h)
         THEN /\ aborted' = TRUE
              /\ UNCHANGED << vstates, workers_todo, wpc, pending >>
         ELSE LET k == Accepted(acts) IN
              /\ vstates' = [vstates EXCEPT ![h] =
                               [e \in 1..Nenvs(h) |->
                                  IF e <= k THEN Submitted(vstates[h][e], acts[e])
                                  ELSE vstates[h][e]]]
              /\ workers_todo' = workers_todo \o [e \in 1..k |-> <<h, e>>]
              /\ aborted' = (k < Nenvs(h))
              /\ wpc' = IF k < Nenvs(h) THEN wpc ELSE WakeWorkers(wpc)
              /\ pending' = [pending EXCEPT ![h] = TRUE]
    /\ UNCHANGED << h2s, handle_seq, shutdown_flag, all_threads, todo,
                    cpc, ch, ci, out, spc >>
    /\ UNCHANGED outside

(* ------------------------------- vec_wait ----------------------------- *)
\* vstate_find(handle), then the polling loop
WaitCall(h) ==
    /\ ~aborted /\ cpc = "idle"
    /\ IF vstate_find(h)
         THEN /\ cpc' = "wait_check"
              /\ ch' = h
              /\ UNCHANGED aborted
         ELSE /\ aborted' = TRUE
              /\ UNCHANGED << cpc, ch >>
    /\ UNCHANGED << h2s, handle_seq, vstates, workers_todo, shutdown_flag, all_threads,
                    wpc, todo, ci, out, pending, spc >>
    /\ UNCHANGED outside

AllStepsCompleted_InProgress(h) ==
    \A e \in 1..Nenvs(h) : ~vstates[h][e].step_in_progress

\* all_steps_completed &= !state->agent_ready, over every instance
AllStepsCompleted(h) ==
    \A e \in 1..Nenvs(h) : ~vstates[h][e].agent_ready

\* one pass of the loop up to "break" or up to the call of wait()
WaitCheck ==
    /\ ~aborted /\ cpc = "wait_check"
    /\ cpc' = IF AllStepsCompleted(ch) THEN "wait_copy" ELSE "wait_presleep"
    /\ UNCHANGED << h2s, handle_seq, vstates, workers_todo, shutdown_flag, all_threads,
                    wpc, todo, ch, ci, out, pending, spc, aborted >>
    /\ UNCHANGED outside

\* wait_for_step_completed.wait(&h2s_mutex, 1000): the caller is now asleep
WaitSleep ==
    /\ ~aborted /\ cpc = "wait_presleep"
    /\ cpc' = "wait_sleeping"
    /\ UNCHANGED << h2s, handle_seq, vstates, workers_todo, shutdown_flag, all_threads,
                    wpc, todo, ch, ci, out, pending, spc, aborted >>
    /\ UNCHANGED outside

WaitTimeout_Unbounded ==
    /\ FALSE
    /\ UNCHANGED vars

\* the wait returns after its 1000 ms timeout
WaitTimeout ==
    /\ ~aborted /\ cpc = "wait_sleeping"
    /\ cpc' = "wait_check"
    /\ UNCHANGED << h2s, handle_seq, vstates, workers_todo, shutdown_flag, all_threads,
                    wpc, todo, ch, ci, out, pending, spc, aborted >>
    /\ UNCHANGED outside

CopyIndex_Reversed(h, e) == Nenvs(h) + 1 - e

\* state_e = vstate->states[e]
CopyIndex(h, e) == e

\* rew[e], done[e], new_level[e]
Entry(s) == [rew |-> s.reward, done |-> s.game_over, new_level |-> s.is_new_level]

Cleared_KeepReward(s) ==
    [s EXCEPT !.game_over = FALSE, !.is_new_level = FALSE, !.waited = TRUE]

\* a.reward = 0; a.game_over = false; maze->is_new_level = false; waited
\* records that a vec_wait has reported the instance
Cleared(s) ==
    [s EXCEPT !.reward = 0, !.game_over = FALSE, !.is_new_level = FALSE, !.waited = TRUE]

\* one iteration of the copy loop, under the instance's state_mutex
WaitCopy ==
    /\ ~aborted /\ cpc = "wait_copy"
    /\ LET i == <<ch, CopyIndex(ch, ci)>> IN
       /\ StateMutexFree(i)
       /\ out' = Append(out, Entry(St(i)))
       /\ vstates' = [vstates EXCEPT ![i[1]][i[2]] = Cleared(St(i))]
    /\ IF ci = Nenvs(ch)
         THEN /\ cpc' = "wait_done"
              /\ pending' = [pending EXCEPT ![ch] = FALSE]
              /\ UNCHANGED ci
         ELSE /\ ci' = ci + 1
              /\ UNCHANGED << cpc, pending >>
    /\ UNCHANGED << h2s, handle_seq, workers_todo, shutdown_flag, all_threads,
                    wpc, todo, ch, spc, aborted >>
    /\ UNCHANGED outside

\* vec_wait returns; the caller takes the buffers
WaitReturn ==
    /\ ~aborted /\ cpc = "wait_done"
    /\ cpc' = "idle"
    /\ ci' = 1
    /\ out' = << >>
    /\ UNCHANGED << h2s, handle_seq, vstates, workers_todo, shutdown_flag, all_threads,
                    wpc, todo, ch, pending, spc, aborted >>
    /\ UNCHANGED outside

vec_wait ==
    \/ \E h \in h2s : WaitCall(h)
    \/ WaitCheck
    \/ WaitSleep
    \/ WaitTimeout
    \/ WaitCopy
    \/ WaitReturn

(* --------------------------- coinrun_shutdown ------------------------- *)
\* shutdown_flag = true
ShutdownCall ==
    /\ ~aborted /\ spc = "idle"
    /\ shutdown_flag' = TRUE
    /\ spc' = "joining"
    /\ UNCHANGED << h2s, handle_seq, vstates, workers_todo, all_threads,
                    wpc, todo, cpc, ch, ci, out, pending, aborted >>
    /\ UNCHANGED outside

\* th = all_threads.back(); pop_back(); th->wait()
ShutdownJoin ==
    /\ ~aborted /\ spc = "joining" /\ all_threads > 0
    /\ wpc[all_threads] = "exited"
    /\ all_threads' = all_threads - 1
    /\ UNCHANGED << h2s, handle_seq, vstates, workers_todo, shutdown_flag,
                    wpc, todo, cpc, ch, ci, out, pending, spc, aborted >>
    /\ UNCHANGED outside

\* all_threads.empty(): coinrun_shutdown returns
ShutdownReturn ==
    /\ ~aborted /\ spc = "joining" /\ all_threads = 0
    /\ spc' = "returned"
    /\ UNCHANGED << h2s, handle_seq, vstates, workers_todo, shutdown_flag, all_threads,
                    wpc, todo, cpc, ch, ci, out, pending, aborted >>
    /\ UNCHANGED outside

coinrun_shutdown == ShutdownCall \/ ShutdownJoin \/ ShutdownReturn

(* --------------------------- specifications --------------------------- *)
\* the indices the engine runs are submitted with: no-op and jump
SampleActions == {0, 3}

\* a caller that keeps the contract: registered handles, valid action
\* indices, and no second submit before the wait for the first
Submit ==
    \E h \in h2s : \E acts \in [1..Nenvs(h) -> SampleActions] :
        /\ ~pending[h]
        /\ vec_step_async_discrete(h, acts)

Create ==
    \E n \in 1..MaxEnvs :
        /\ handle_seq < HANDLE_SEQ_START + MaxGroups
        /\ vec_create(n)

Close == \E h \in h2s : vec_close(h)

Worker == \E w \in Workers : stepping_thread(w)

Next == Create \/ Submit \/ vec_wait \/ Close \/ coinrun_shutdown \/ Worker

Spec == Init /\ [][Next]_vars

\* a caller that breaks the contract: it may submit again before it waited
\* for the previous batch
SubmitAnytime ==
    \E h \in h2s : \E acts \in [1..Nenvs(h) -> SampleActions] :
        /\ Len(workers_todo) + Nenvs(h) <= MaxQueue
        /\ vec_step_async_discrete(h, acts)

NextMisuse ==
    Create \/ SubmitAnytime \/ vec_wait \/ Close \/ Worker

SpecMisuse == Init /\ [][NextMisuse]_vars

\* a caller that submits every value of ActionInputs, in range or not
SubmitAnyAction ==
    \E h \in h2s : \E acts \in [1..Nenvs(h) -> ActionInputs] :
        /\ ~pending[h]
        /\ vec_step_async_discrete(h, acts)

NextActions == Create \/ SubmitAnyAction \/ vec_wait \/ Worker

SpecActions == Init /\ [][NextActions]_vars

\* the registry seen from the calling thread: a caller that creates and
\* closes groups in turn and passes any value of HandleInputs as a handle;
\* its submits carry no-op actions.  The stepping threads take no part:
\* they read and write neither h2s nor handle_seq.
CreateAny == \E n \in 1..MaxEnvs : h2s = {} /\ vec_create(n)

CloseAny == \E h \in HandleInputs : vec_close(h)

SubmitAnyHandle ==
    \E h \in HandleInputs :
        IF h \in h2s
          THEN /\ ~pending[h]
               /\ Len(workers_todo) + Nenvs(h) <= MaxQueue
               /\ vec_step_async_discrete(h, [e \in 1..Nenvs(h) |-> 0])
          ELSE vec_step_async_discrete(h, << >>)

WaitAnyHandle ==
    \/ \E h \in HandleInputs : WaitCall(h)
    \/ WaitCheck
    \/ WaitSleep
    \/ WaitTimeout
    \/ WaitCopy
    \/ WaitReturn

NextHandles == CreateAny \/ CloseAny \/ SubmitAnyHandle \/ WaitAnyHandle

SpecHandles == Init /\ [][NextHandles]_vars

\* the threads run: each stepping thread, the call in progress of the
\* calling thread, and the joins of coinrun_shutdown are scheduled, and
\* every timed wait returns; a worker that wants h2s_mutex gets it, since
\* vec_wait gives it up for up to 1000 ms on every pass of its loop
CallerRuns == WaitCheck \/ WaitSleep \/ WaitTimeout \/ WaitCopy \/ WaitReturn

ShutdownRuns == ShutdownJoin \/ ShutdownReturn

Fairness ==
    /\ \A w \in Workers : WF_vars(stepping_thread(w))
    /\ \A w \in Workers : SF_vars(WorkerPoll(w))
    /\ WF_vars(CallerRuns)
    /\ WF_vars(ShutdownRuns)

FairSpec == Init /\ [][Next]_vars /\ Fairness

(* ------------------------------- numbers ------------------------------ *)
\* a float is kept as an integer number of 1/SCALE, rounded to nearest after
\* every multiplication; rates and speeds given as literals in the source
\* are kept in thousandths
SCALE == 1000000

GRAVITY == 80
MAX_JUMP == 900
MAX_SPEED == 200
MIX_RATE == 100
AIR_CONTROL == 150
LADDER_MIXRATE_Y == 400
LADDER_MIXRATE_X == 100
LADDER_V == 400
MONSTER_SPEED == 50
MONSTER_MIXRATE == 50
DEATH_ANIM_LENGTH == 30
FINISHED_LEVEL_ANIM_LENGTH == 20
MONSTER_DEATH_ANIM_LENGTH == 2
KILL_MONSTER_REWARD == 5
JUMP_PENALTY == 0
LEVEL_TIMEOUT == 1000

Abs(v) == IF v < 0 THEN -v ELSE v
\* n / d rounded to nearest
RoundDiv(n, d) == IF n >= 0 THEN (2 * n + d) \div (2 * d) ELSE -((2 * (-n) + d) \div (2 * d))
\* a literal of the source, given in thousandths, as a value
Val(c) == c * (SCALE \div 1000)
\* c * v for a literal c given in thousandths
Frac(c, v) == RoundDiv(c * v, 1000)
\* int(v): conversion of a float to int truncates toward zero
Trunc(v) == IF v >= 0 THEN v \div SCALE ELSE -((-v) \div SCALE)
\* an int as a float
Flt(n) == n * SCALE

sign(x) == IF x > 0 THEN 1 ELSE IF x = 0 THEN 0 ELSE -1
clip_abs(x, y) == IF x > y THEN y ELSE IF x < -y THEN -y ELSE x

(* -------------------------------- tiles ------------------------------- *)
SPACE == "."
LADDER == "="
LAVA_SURFACE == "^"
LAVA_MIDDLE == "|"
WALL_SURFACE == "S"
WALL_MIDDLE == "A"
COIN_OBJ1 == "1"
COIN_OBJ2 == "2"
SPIKE_OBJ == "P"
FLYING_MONSTER == "F"
WALKING_MONSTER == "M"
GROUND_MONSTER == "G"
\* what a read past either end of the array walls gives: no tile code
OUTSIDE == "?"

is_crat(c) == c \in {"#", "$", "&", "%"}
is_wall(c, crate_counts) == c \in {"S", "A", "a", "b"} \/ (crate_counts /\ is_crat(c))
is_lethal(c) == c \in {LAVA_SURFACE, LAVA_MIDDLE, SPIKE_OBJ}
is_coin(c) == c = COIN_OBJ1
is_gem(c) == c = COIN_OBJ2

(* -------------------------------- Maze -------------------------------- *)
\* walls[w*y + x], the array 1-based here
Index(m, x, y) == m.w * y + x + 1
InArray(m, x, y) == Index(m, x, y) \in 1..Len(m.walls)
get_elem(m, x, y) == IF InArray(m, x, y) THEN m.walls[Index(m, x, y)] ELSE OUTSIDE
set_elem(m, x, y, val) == IF InArray(m, x, y) THEN [m EXCEPT !.walls[Index(m, x, y)] = val] ELSE m

\* the lookup get_elem(x, y) has its coordinates inside the grid
InGrid(m, c) == c[1] \in 0..(m.w - 1) /\ c[2] \in 0..(m.h - 1)

\* has_vertical_space(x, y, crate_counts): probes at x + .1 and x + .9 of row int(y)
has_vertical_space(m, x, y, crate_counts) ==
    LET l == get_elem(m, Trunc(x + SCALE \div 10), Trunc(y))
        r == get_elem(m, Trunc(x + 9 * (SCALE \div 10)), Trunc(y))
    IN  ~(is_wall(l, crate_counts) \/ is_wall(r, crate_counts))

\* the cells has_vertical_space looks up: the second only when the first is no wall
ProbeCells(m, x, y) ==
    LET lx == Trunc(x + SCALE \div 10)
    IN  {<<lx, Trunc(y)>>} \cup
        (IF is_wall(get_elem(m, lx, Trunc(y)), FALSE) THEN {}
                                                    ELSE {<<Trunc(x + 9 * (SCALE \div 10)), Trunc(y)>>})

(* -------------------------------- Agent ------------------------------- *)
\* reward of the coin that leaves `left` coins in the maze
CoinReward_Both(left) == IF left = 0 THEN 11 ELSE 1

CoinReward(left) == IF left = 0 THEN 10 ELSE 1

\* a gem that is taken off maze->coins when it is collected
CoinsAfterGem_OneLess(coins) == coins - 1

\* maze->coins after the is_gem branch of eat_coin, which does not assign it
CoinsAfterGem(coins) == coins

\* Agent::eat_coin(x, y) on g = [maze, agent, monsters, lookups]
eat_coin(g, x, y) ==
    LET obj == get_elem(g.maze, x, y)
        g0 == [g EXCEPT !.lookups = @ \cup {<<x, y>>}]
        g1 == IF is_lethal(obj)
                THEN [g0 EXCEPT !.maze.is_terminated = TRUE,
                                !.agent.is_killed = TRUE,
                                !.agent.killed_animation_frame_cnt = DEATH_ANIM_LENGTH]
                ELSE g0
        left == g1.maze.coins - 1
        g2 == IF is_coin(obj)
                THEN [g1 EXCEPT !.maze = [set_elem(@, x, y, SPACE) EXCEPT
                                             !.coins = left,
                                             !.is_terminated = @ \/ left = 0],
                                !.agent.collected_coin = TRUE,
                                !.agent.power_up_mode = FALSE,
                                !.agent.reward = @ + CoinReward(left),
                                !.agent.reward_sum = @ + CoinReward(left),
                                !.agent.finished_level_frame_cnt =
                                    IF left = 0 THEN FINISHED_LEVEL_ANIM_LENGTH ELSE @]
                ELSE g1
    IN  IF is_gem(obj)
          THEN [g2 EXCEPT !.maze = [set_elem(@, x, y, SPACE) EXCEPT !.coins = CoinsAfterGem(@)],
                          !.agent.reward = @ + 1,
                          !.agent.reward_sum = @ + 1,
                          !.agent.power_up_mode = TRUE,
                          !.agent.collected_gem = TRUE]
          ELSE g2

\* y = int(ny); while (!has_vertical_space(x, y, false)) y -= 1;
RECURSIVE HeadRoom(_, _, _)
HeadRoom(m, x, y) ==
    IF has_vertical_space(m, x, y, FALSE) THEN y ELSE HeadRoom(m, x, y - SCALE)

RECURSIVE HeadCells(_, _, _)
HeadCells(m, x, y) ==
    ProbeCells(m, x, y) \cup
    (IF has_vertical_space(m, x, y, FALSE) THEN {} ELSE HeadCells(m, x, y - SCALE))

\* if (action_dy >= 0 && int(ny)!=int(y)): the agent comes to rest on the crate
CrateLands_OnlyUp(a, ny) == a.action_dy > 0 /\ Trunc(ny) # Trunc(a.y)

CrateLands(a, ny) == a.action_dy >= 0 /\ Trunc(ny) # Trunc(a.y)

\* x = int(inx) + 1: the agent is put at the right edge of the wall it ran
\* into on its left
SnapLeft_AsRight(inx) == Flt(inx)

SnapLeft(inx) == Flt(inx + 1)

\* the vertical half of Agent::sub_step: the agent a moving to height ny
VerticalMove(a, m, ny, dvy) ==
    IF dvy < 0 /\ ~has_vertical_space(m, a.x, ny, FALSE)
      THEN [a EXCEPT !.y = Flt(Trunc(ny) + 1), !.support = TRUE, !.vy = 0]
    ELSE IF dvy < 0 /\ ~has_vertical_space(m, a.x, ny, TRUE)
      THEN IF CrateLands(a, ny)
             THEN [a EXCEPT !.y = Flt(Trunc(ny) + 1), !.vy = 0, !.support = TRUE]
             ELSE [a EXCEPT !.support = FALSE, !.y = ny]
    ELSE IF dvy > 0 /\ ~has_vertical_space(m, a.x, ny + SCALE, FALSE)
      THEN [a EXCEPT !.y = HeadRoom(m, a.x, Flt(Trunc(ny))),
                     !.bumped_head = TRUE, !.vy = 0]
    ELSE [a EXCEPT !.y = ny]

\* the cells the vertical half looks up
VerticalCells(a, m, ny, dvy) ==
    IF dvy < 0 THEN ProbeCells(m, a.x, ny)
    ELSE IF dvy > 0
      THEN ProbeCells(m, a.x, ny + SCALE) \cup
           (IF ~has_vertical_space(m, a.x, ny + SCALE, FALSE)
              THEN HeadCells(m, a.x, Flt(Trunc(ny))) ELSE {})
    ELSE {}

\* the wall test of the horizontal half, in column inx and row iy
HitsWall(m, inx, iy, dvx) ==
    \/ dvx < 0 /\ is_wall(get_elem(m, inx, iy), FALSE)
    \/ dvx > 0 /\ is_wall(get_elem(m, inx + 1, iy), FALSE)

\* the horizontal half of Agent::sub_step, on the agent a1 the vertical
\* half left, moving to nx
HorizontalMove(a1, m, nx, dvx) ==
    IF dvx < 0 /\ is_wall(get_elem(m, Trunc(nx), Trunc(a1.y)), FALSE)
      THEN [a1 EXCEPT !.vx = 0, !.x = SnapLeft(Trunc(nx))]
    ELSE IF dvx > 0 /\ is_wall(get_elem(m, Trunc(nx) + 1, Trunc(a1.y)), FALSE)
      THEN [a1 EXCEPT !.vx = 0, !.x = Flt(Trunc(nx))]
    ELSE [a1 EXCEPT !.x = nx]

HorizontalCells(inx, iy, dvx) ==
    IF dvx < 0 THEN {<<inx, iy>>}
    ELSE IF dvx > 0 THEN {<<inx + 1, iy>>}
    ELSE {}

\* the four eat_coin calls that end Agent::sub_step, around (ix, iy)
EatAround(g2, ix, iy) ==
    eat_coin(eat_coin(eat_coin(eat_coin(g2, ix, iy), ix, iy + 1), ix + 1, iy),
             ix + 1, iy + 1)

\* Agent::sub_step from the vertical half on: a1 is the agent it left, a2
\* the agent after the horizontal half
SubStepEnd(g, a1, a2, dvx, dvy) ==
    EatAround([g EXCEPT !.agent = a2,
                        !.lookups = @ \cup VerticalCells(g.agent, g.maze, g.agent.y + dvy, dvy)
                                      \cup HorizontalCells(Trunc(g.agent.x + dvx), Trunc(a1.y), dvx),
                        !.snaps = IF HitsWall(g.maze, Trunc(g.agent.x + dvx), Trunc(a1.y), dvx)
                                    THEN @ \cup {<<a2.x, a2.vx>>} ELSE @],
              Trunc(g.agent.x), Trunc(a1.y))

SubStepAcross(g, a1, dvx, dvy) ==
    SubStepEnd(g, a1, HorizontalMove(a1, g.maze, g.agent.x + dvx, dvx), dvx, dvy)

\* Agent::sub_step(_vx, _vy); snaps records position and velocity as a
\* horizontal collision leaves them
sub_step(g, dvx, dvy) ==
    SubStepAcross(g, VerticalMove(g.agent, g.maze, g.agent.y + dvy, dvy), dvx, dvy)

\* a release that scales the jump with the charge
Release_ByCharge(a) ==
    [a EXCEPT !.vy = a.spring, !.reward = @ - JUMP_PENALTY, !.reward_sum = @ - JUMP_PENALTY,
              !.spring = 0, !.support = TRUE,
              !.launched = << a.spring, 1 >>]

\* the release of the spring: vy = max_jump; reward -= JUMP_PENALTY;
\* spring = 0; support = true
Release(a) ==
    [a EXCEPT !.vy = Val(MAX_JUMP), !.reward = @ - JUMP_PENALTY, !.reward_sum = @ - JUMP_PENALTY,
              !.spring = 0, !.support = TRUE,
              !.launched = << Val(MAX_JUMP), 1 >>]

\* the velocities step_coinrun integrates: on a ladder, at the release of
\* the spring, or under gravity; then the two clip_abs. launched records
\* the vy this leaves and the number of times JUMP_PENALTY was subtracted
Launch(a, near_x) ==
    IF a.ladder_mode
      THEN [a EXCEPT
              !.launched = << clip_abs(Frac(1000 - LADDER_MIXRATE_Y, a.vy)
                              + Frac(LADDER_MIXRATE_Y, Frac(MAX_SPEED, Flt(a.action_dy))),
                              Val(LADDER_V)), 0 >>,
              !.vx = clip_abs(Frac(1000 - LADDER_MIXRATE_X, a.vx)
                              + Frac(LADDER_MIXRATE_X,
                                     Frac(MAX_SPEED, Flt(a.action_dx)
                                                     + Frac(200, Flt(near_x) - a.x))),
                              Val(LADDER_V)),
              !.vy = clip_abs(Frac(1000 - LADDER_MIXRATE_Y, a.vy)
                              + Frac(LADDER_MIXRATE_Y, Frac(MAX_SPEED, Flt(a.action_dy))),
                              Val(LADDER_V))]
    ELSE IF a.spring > 0 /\ a.vy = 0 /\ a.action_dy = 0
      THEN Release(a)
    ELSE [a EXCEPT !.vy = a.vy - Val(GRAVITY),
                   !.launched = << a.vy - Val(GRAVITY), 0 >>]

\* the bookkeeping of step_coinrun after the sub-steps
Settle(a) ==
    IF a.support
      THEN LET s1 == IF a.action_dy > 0 THEN a.spring + sign(a.action_dy) * (Val(MAX_JUMP) \div 4)
                     ELSE IF a.action_dy < 0 THEN -(SCALE \div 100)
                     ELSE IF a.spring < 0 THEN 0
                     ELSE a.spring
               s2 == clip_abs(s1, Val(MAX_JUMP))
               v1 == Frac(1000 - MIX_RATE, a.vx)
               v2 == IF s2 = 0 THEN v1 + Frac(MIX_RATE, Val(MAX_SPEED)) * a.action_dx ELSE v1
           IN  [a EXCEPT !.spring = s2,
                         !.vx = IF Abs(v2) < Frac(MIX_RATE, Val(MAX_SPEED)) THEN 0 ELSE v2]
      ELSE [a EXCEPT !.spring = 0,
                     !.vx = Frac(1000 - Frac(AIR_CONTROL, MIX_RATE), a.vx)
                            + Frac(Frac(AIR_CONTROL, MIX_RATE), Flt(a.action_dx))]

\* ladder_mode set by the two samples and the vertical input alone
LadderMode_InputOnly(prev, on_ladder, dy) == on_ladder /\ dy # 0

\* ladder_mode after the test of the two samples: set on a ladder tile with
\* vertical input, left as it was on a ladder tile without, cleared off it
LadderMode(prev, on_ladder, dy) ==
    IF on_ladder THEN (IF dy # 0 THEN TRUE ELSE prev) ELSE FALSE

\* the start of Agent::step_coinrun: support = false, and no input once the
\* level is finished
Unsupported(a) ==
    IF a.finished_level_frame_cnt > 0
      THEN [a EXCEPT !.support = FALSE, !.action_dx = 0, !.action_dy = 0]
      ELSE [a EXCEPT !.support = FALSE]

\* the two cells step_coinrun samples for a ladder
LadderUp(a) == <<Trunc(a.x + SCALE \div 2), Trunc(a.y + 2 * (SCALE \div 10))>>

LadderDn(a) == <<Trunc(a.x + SCALE \div 2), Trunc(a.y - 2 * (SCALE \div 10))>>

OnLadder(m, a) ==
    \/ get_elem(m, LadderUp(a)[1], LadderUp(a)[2]) = LADDER
    \/ get_elem(m, LadderDn(a)[1], LadderDn(a)[2]) = LADDER

\* the two clip_abs of step_coinrun
Clipped(a2) ==
    [a2 EXCEPT !.vy = clip_abs(@, Val(MAX_JUMP)), !.vx = clip_abs(@, Val(MAX_SPEED))]

\* the first sub_step, always made
FirstSubStep(g0) == sub_step(g0, Frac(500, g0.agent.vx), Frac(500, g0.agent.vy))

\* the second sub_step, made unless the first left the agent at rest
SecondSubStep(g1) ==
    IF g1.agent.vx = 0 /\ g1.agent.vy = 0
      THEN g1
      ELSE sub_step(g1, Frac(500, g1.agent.vx), Frac(500, g1.agent.vy))

\* step_coinrun on the agent a0 that Unsupported left
StepFrom(g, a0) ==
    SecondSubStep(FirstSubStep(
        [g EXCEPT !.agent = Clipped(Launch([a0 EXCEPT !.ladder_mode =
                                               LadderMode(@, OnLadder(g.maze, a0), a0.action_dy)],
                                           Trunc(a0.x + SCALE \div 2))),
                  !.lookups = @ \cup {LadderUp(a0), LadderDn(a0)}]))

\* the result of step_coinrun from the state g2 its sub-steps left
Settled(g2) == [g2 EXCEPT !.agent = Settle(@)]

\* Agent::step_coinrun
step_coinrun(g) == Settled(StepFrom(g, Unsupported(g.agent)))

\* Agent::step without its last statement
AgentStep_NoTimeout(g) == step_coinrun([g EXCEPT !.agent.time_alive = @ + 1])

\* the last statement of Agent::step, on the state g1 step_coinrun left
TimedOut(g1) ==
    [g1 EXCEPT !.maze.is_terminated = @ \/ g1.agent.time_alive > LEVEL_TIMEOUT]

\* Agent::step
AgentStep(g) == TimedOut(step_coinrun([g EXCEPT !.agent.time_alive = @ + 1]))

(* ------------------------------- Monster ------------------------------ *)
\* EnemyTheme of load_enemy_themes, by enemy_name
EnemyTheme(speed, jumping, pause, jump, killable) ==
    [ monster_max_speed |-> speed, is_jumping_monster |-> jumping,
      max_pause_time |-> pause, max_jump_height |-> jump, can_be_killed |-> killable ]

enemy_themel ==
    [ sawHalf    |-> EnemyTheme(Val(MONSTER_SPEED), FALSE, 0, 0, FALSE),
      barnacle   |-> EnemyTheme(Val(MONSTER_SPEED), FALSE, 0, 0, FALSE),
      bee        |-> EnemyTheme(Val(MONSTER_SPEED), FALSE, 0, 0, FALSE),
      slimeBlock |-> EnemyTheme(Val(MONSTER_SPEED), FALSE, 0, 0, TRUE),
      slimeBlue  |-> EnemyTheme(Val(MONSTER_SPEED), FALSE, 0, 0, FALSE),
      mouse      |-> EnemyTheme(Frac(2000, Val(MONSTER_SPEED)), FALSE, 0, 0, FALSE),
      snail      |-> EnemyTheme(Frac(400, Val(MONSTER_SPEED)), FALSE, 0, 0, TRUE),
      ladybug    |-> EnemyTheme(Frac(1800, Val(MONSTER_SPEED)), TRUE, 15, Val(80), FALSE),
      wormPink   |-> EnemyTheme(Frac(600, Val(MONSTER_SPEED)), FALSE, 0, 0, TRUE),
      frog       |-> EnemyTheme(Frac(2000, Val(MONSTER_SPEED)), TRUE, 60, Val(200), FALSE) ]

\* a Monster as remove_traces_add_monsters makes it at (x, y)
NewMonster(x, y, flying, walking, theme) ==
    [ x |-> Flt(x), y |-> Flt(y), vx |-> SCALE \div 100, vy |-> 0,
      is_flying |-> flying, is_walking |-> walking, is_dead |-> FALSE,
      monster_dying_frame_cnt |-> 0, theme_n |-> theme, pause |-> 0 ]

\* the cells Monster::step looks up in get_elem calls of its own
FeelCells(mo) ==
    LET ix == Trunc(mo.x)
        iy == Trunc(mo.y)
    IN  IF ~mo.is_flying /\ ~mo.is_walking THEN {}
        ELSE {<<ix, iy>>, <<ix + 1, iy>>} \cup
             (IF mo.is_walking THEN {<<ix, iy - 1>>, <<ix + 1, iy - 1>>} ELSE {})

\* control of Monster::step: away from a wall ahead, and for a walking
\* monster back from a ledge; the later assignment wins
Control(m, mo) ==
    LET ix == Trunc(mo.x)
        iy == Trunc(mo.y)
        c0 == sign(mo.vx)
        c1 == IF is_wall(get_elem(m, ix, iy), FALSE) THEN 1 ELSE c0
        c2 == IF is_wall(get_elem(m, ix + 1, iy), FALSE) THEN -1 ELSE c1
        c3 == IF mo.is_walking /\ ~is_wall(get_elem(m, ix, iy - 1), FALSE) THEN 1 ELSE c2
    IN  IF mo.is_walking /\ ~is_wall(get_elem(m, ix + 1, iy - 1), FALSE) THEN -1 ELSE c3

\* the jumping part of Monster::step; draw is the value global_rand_gen gives
Hop(m, mo, th, draw) ==
    LET m1 == IF mo.vy = 0 /\ mo.pause = 0 THEN [mo EXCEPT !.vy = th.max_jump_height]
              ELSE IF mo.pause = 0 THEN [mo EXCEPT !.vy = @ - Frac(800, Val(GRAVITY))]
              ELSE mo
        ny == m1.y + m1.vy
    IN  IF m1.vy < 0 /\ ~has_vertical_space(m, m1.x, ny, FALSE)
          THEN [m1 EXCEPT !.y = Flt(Trunc(ny) + 1), !.vy = 0,
                          !.pause = draw % th.max_pause_time]
          ELSE m1

HopCells(m, mo, th) ==
    LET vy == IF mo.vy = 0 /\ mo.pause = 0 THEN th.max_jump_height
              ELSE IF mo.pause = 0 THEN mo.vy - Frac(800, Val(GRAVITY))
              ELSE mo.vy
    IN  IF th.is_jumping_monster /\ vy < 0 THEN ProbeCells(m, mo.x, mo.y + vy) ELSE {}

\* vx of Monster::step, mixed towards the control and clipped
Steered(m, mo, th) ==
    [mo EXCEPT !.vx = clip_abs(Frac(MONSTER_MIXRATE, Flt(Control(m, mo)))
                               + Frac(1000 - MONSTER_MIXRATE, mo.vx),
                               th.monster_max_speed)]

\* the end of Monster::step: a pause counted down, or the move
PauseOrMove(m2) ==
    IF m2.pause > 0
      THEN [m2 EXCEPT !.pause = @ - 1]
      ELSE [m2 EXCEPT !.x = @ + m2.vx, !.y = @ + m2.vy]

\* Monster::step of a moving monster of theme th, m1 being the monster
\* with its new vx
MonsterMove(m, m1, th, draw) ==
    PauseOrMove(IF th.is_jumping_monster THEN Hop(m, m1, th, draw) ELSE m1)

\* Monster::step
MonsterStep(m, mo, draw) ==
    IF ~mo.is_flying /\ ~mo.is_walking THEN mo
    ELSE MonsterMove(m, Steered(m, mo, enemy_themel[mo.theme_n]),
                     enemy_themel[mo.theme_n], draw)

MonsterCells(m, mo) ==
    IF ~mo.is_flying /\ ~mo.is_walking THEN {}
    ELSE FeelCells(mo) \cup HopCells(m, mo, enemy_themel[mo.theme_n])

(* -------------------------- the body of a tick ------------------------ *)
\* monster killed by alien
Stomps(mo, a) ==
    /\ Abs(mo.x - a.x) < 6 * (SCALE \div 10)
    /\ a.y - mo.y < SCALE
    /\ a.y - mo.y > 0
    /\ enemy_themel[mo.theme_n].can_be_killed

\* the test without its last conjunct
Touches_IgnorePowerUp(mo, a) == Abs(mo.x - a.x) + Abs(mo.y - a.y) < SCALE

\* agent is killed by monster
Touches(mo, a) == Abs(mo.x - a.x) + Abs(mo.y - a.y) < SCALE /\ ~a.power_up_mode

Outcome_DeathFirst(mo, a) ==
    IF Touches(mo, a) THEN "agent" ELSE IF Stomps(mo, a) THEN "monster" ELSE "none"

\* who dies when monster mo, after its step, meets the agent
Outcome(mo, a) ==
    IF Stomps(mo, a) THEN "monster" ELSE IF Touches(mo, a) THEN "agent" ELSE "none"

\* what the loop does to the state g1 in which monster i has stepped
Met(g1, i, who) ==
    IF who = "monster"
      THEN [g1 EXCEPT !.monsters[i].is_dead = TRUE,
                      !.monsters[i].monster_dying_frame_cnt = MONSTER_DEATH_ANIM_LENGTH - 1,
                      !.agent.reward = @ + KILL_MONSTER_REWARD,
                      !.agent.reward_sum = @ + KILL_MONSTER_REWARD,
                      !.agent.kills = @ + 1,
                      !.agent.killed_monster = TRUE]
    ELSE IF who = "agent"
      THEN [g1 EXCEPT !.maze.is_terminated = TRUE,
                      !.agent.is_killed = TRUE,
                      !.agent.killed_animation_frame_cnt = DEATH_ANIM_LENGTH]
    ELSE g1

\* monster i steps to mo and is compared with the agent
Meet(g, i, mo) ==
    Met([g EXCEPT !.monsters[i] = mo,
                  !.lookups = @ \cup MonsterCells(g.maze, g.monsters[i])],
        i, Outcome(mo, g.agent))

\* a loop that passes over no monster
Skipped_Never(mo) == FALSE

\* if (!m->is_dead) fails: the loop passes over the monster
Skipped(mo) == mo.is_dead

\* one pass of the loop over maze->monsters
Encounter(g, i, draw) ==
    IF Skipped(g.monsters[i]) THEN g
    ELSE Meet(g, i, MonsterStep(g.maze, g.monsters[i], draw))

RECURSIVE MonsterLoop(_, _, _)
MonsterLoop(g, i, draw) ==
    IF i > Len(g.monsters) THEN g
    ELSE MonsterLoop(Encounter(g, i, draw), i + 1, draw)

\* a reset that leaves the velocity and time_alive of the old episode
AgentReset_Partial(a, m) ==
    [a EXCEPT !.x = Flt(m.spawnpos[1]), !.y = Flt(m.spawnpos[2]),
              !.action_dx = 0, !.action_dy = 0, !.reward_sum = 0,
              !.is_killed = FALSE, !.killed_monster = FALSE, !.bumped_head = FALSE,
              !.killed_animation_frame_cnt = 0, !.finished_level_frame_cnt = 0,
              !.power_up_mode = FALSE]

\* Agent::reset and the assignments of state_reset that follow it
AgentReset(a, m) ==
    [a EXCEPT !.x = Flt(m.spawnpos[1]), !.y = Flt(m.spawnpos[2]),
              !.action_dx = 0, !.action_dy = 0, !.time_alive = 0, !.reward_sum = 0,
              !.vx = 0, !.vy = 0, !.spring = 0,
              !.is_killed = FALSE, !.killed_monster = FALSE, !.bumped_head = FALSE,
              !.killed_animation_frame_cnt = 0, !.finished_level_frame_cnt = 0,
              !.power_up_mode = FALSE]

\* a state_reset that leaves game_id as it was
StateReset_SameEpisode(g, lv) ==
    [g EXCEPT !.maze = lv.maze, !.monsters = lv.monsters,
              !.agent = [AgentReset(@, lv.maze) EXCEPT !.kills = 0],
              !.time = 0]

\* state_reset with the level the generator made for the seed drawn; kills
\* counts the kill rewards of the episode
StateReset(g, lv) ==
    [g EXCEPT !.maze = lv.maze, !.monsters = lv.monsters,
              !.agent = [AgentReset(@, lv.maze) EXCEPT !.kills = 0],
              !.time = 0, !.game_id = @ + 1]

\* an animation frame that steps the agent whatever the countdown
AnimationSteps_Always(a) == TRUE

\* if (a.finished_level_frame_cnt > 1) a.step(): the agent falls into the
\* coin at the end of the level; a killed agent is frozen
AnimationSteps(a) == a.finished_level_frame_cnt > 1

\* a frame of the animation: both countdowns fall, and the agent steps
\* while the level-finished countdown runs
AnimationFrame(g1) == IF AnimationSteps(g1.agent) THEN AgentStep(g1) ELSE g1

\* if (!a.is_killed) a.step()
AgentTurn(g2) == IF g2.agent.is_killed THEN g2 ELSE AgentStep(g2)

\* if (game_over) state_reset(...)
ResetIf(g3, game_over, lv) == IF game_over THEN StateReset(g3, lv) ELSE g3

\* the four event flags cleared at the end of an ordinary tick
ClearFlags(g4) ==
    [g4 EXCEPT !.agent.collected_coin = FALSE, !.agent.collected_gem = FALSE,
               !.agent.killed_monster = FALSE, !.agent.bumped_head = FALSE]

\* the tick on the state g0 whose ghost fields are cleared
TickFrom(g0, draw, lv) ==
    IF g0.agent.collect_data /\ (g0.agent.killed_animation_frame_cnt > 1
                                 \/ g0.agent.finished_level_frame_cnt > 1)
      THEN AnimationFrame([g0 EXCEPT !.agent.killed_animation_frame_cnt = @ - 1,
                                     !.agent.finished_level_frame_cnt = @ - 1])
      ELSE ClearFlags(ResetIf(AgentTurn([MonsterLoop([g0 EXCEPT !.time = @ + 1], 1, draw) EXCEPT
                                            !.agent.game_over = g0.maze.is_terminated]),
                              g0.maze.is_terminated, lv))

\* the body of a tick under state_mutex, for the action (dx, dy) the caller
\* submitted: the frames played out after the end of an episode when data
\* is collected, or else monsters, agent and the reset of a finished episode
TickBody(g, draw, lv) ==
    TickFrom([g EXCEPT !.lookups = {}, !.snaps = {}, !.agent.launched = << >>], draw, lv)

(* ------------------------------- levels ------------------------------- *)
\* finished grids the size of a screen corner, rows from the top as in the
\* text of a level: floor, border, a floating platform with a coin, a ladder,
\* a step with crates on it
RowsA ==
    << 
       << "A", "A", "A", "A", "A", "A", "A", "A", "A", "A" >>,
       << "A", ".", ".", ".", ".", ".", ".", ".", ".", "A" >>,
       << "A", ".", ".", ".", ".", ".", ".", ".", ".", "A" >>,
       << "A", ".", ".", "1", ".", "=", ".", ".", ".", "A" >>,
       << "A", ".", "a", "S", "b", "=", "#", "#", "#", "A" >>,
       << "A", ".", ".", ".", ".", "=", "S", "S", "S", "A" >>,
       << "A", "S", "S", "S", "S", "S", "A", "A", "A", "A" >> >>

RowsB ==
    << 
       << "A", "A", "A", "A", "A", "A", "A", "A", "A", "A" >>,
       << "A", ".", ".", ".", ".", ".", ".", ".", ".", "A" >>,
       << "A", ".", ".", ".", ".", ".", ".", ".", ".", "A" >>,
       << "A", ".", ".", "1", ".", "=", ".", "1", ".", "A" >>,
       << "A", ".", "a", "S", "b", "=", "#", "#", "#", "A" >>,
       << "A", ".", ".", ".", ".", "=", "S", "S", "S", "A" >>,
       << "A", "S", "S", "S", "S", "S", "A", "A", "A", "A" >> >>

\* a Maze from the rows of a level: walls[w*y + x], y = 0 the bottom row,
\* coins counted as place_coins counts them, coin and gem tiles alike, the
\* agent spawned in row 1; gems is the number of gem tiles placed
MazeOf(rows) ==
    LET h == Len(rows)
        w == Len(rows[1])
        walls == [i \in 1..(w * h) |-> rows[h - ((i - 1) \div w)][((i - 1) % w) + 1]]
    IN  [ w |-> w, h |-> h, walls |-> walls,
          coins |-> Cardinality({i \in 1..(w * h) : is_coin(walls[i]) \/ is_gem(walls[i])}),
          gems |-> Cardinality({i \in 1..(w * h) : is_gem(walls[i])}),
          is_terminated |-> FALSE, spawnpos |-> <<1, 1>> ]

\* the Monster objects of a level: a jumping and a stompable walking monster
\* on the floor, a ground monster on the platform, a flying monster
MonstersOf ==
    << NewMonster(2, 1, FALSE, TRUE, "frog"),
       NewMonster(4, 1, FALSE, TRUE, "slimeBlock"),
       NewMonster(4, 3, FALSE, FALSE, "sawHalf"),
       NewMonster(7, 4, TRUE, FALSE, "bee") >>

Levels ==
    { [maze |-> MazeOf(RowsA), monsters |-> MonstersOf],
      [maze |-> MazeOf(RowsB), monsters |-> MonstersOf] }

(* ------------------------- ticks of one State ------------------------- *)
MaxTicks == 2        \* ticks explored from each starting state
MaxRest == 120       \* zero-input ticks explored after the first tick
MaxRoam == 100       \* ticks explored with the monsters left to roam
MaxRun == 8          \* ticks explored at full horizontal speed
PauseDraws == {0, 7} \* values drawn from global_rand_gen for a monster's pause

\* struct Agent inside an episode, at (x, y) with velocity (vx, vy)
AgentAt(x, y, vx, vy, lm, pu, t, cd) ==
    [ x |-> x, y |-> y, vx |-> vx, vy |-> vy, spring |-> 0,
      action_dx |-> 0, action_dy |-> 0, time_alive |-> t, reward |-> 0,
      game_over |-> FALSE, support |-> FALSE, ladder_mode |-> lm,
      is_killed |-> FALSE, killed_monster |-> FALSE, bumped_head |-> FALSE,
      killed_animation_frame_cnt |-> 0, finished_level_frame_cnt |-> 0,
      power_up_mode |-> pu, collected_coin |-> FALSE, collected_gem |-> FALSE,
      collect_data |-> cd, reward_sum |-> 0, launched |-> << >>, kills |-> 0 ]

\* the cell of the agent's position
Cell(a) == <<Trunc(a.x), Trunc(a.y)>>

\* the agent is on top of a wall or crate: has_vertical_space fails for the
\* row below its feet
Standing(g) ==
    /\ g.agent.y = Flt(Trunc(g.agent.y))
    /\ ~has_vertical_space(g.maze, g.agent.x, g.agent.y - SCALE, TRUE)

\* the footprint probes of the agent's own row find no wall and no crate
Fits(g) == has_vertical_space(g.maze, g.agent.x, g.agent.y, TRUE)

\* the agent stands at zero velocity on a wall or a crate
AtRest(g) == Standing(g) /\ g.agent.vx = 0 /\ g.agent.vy = 0

\* the engine is idle while one State is stepped
engine == << h2s, handle_seq, vstates, workers_todo, shutdown_flag, all_threads,
             wpc, todo, cpc, ch, ci, out, pending, spc, aborted, ignored >>

\* the cell where a run of zero-input ticks began with the agent standing at
\* zero velocity, << >> outside such a run
RestCell(g, dx, dy) ==
    IF dx # 0 \/ dy # 0 \/ g.maze.is_terminated THEN << >>
    ELSE IF g.rest # << >> THEN g.rest
    ELSE IF Standing(g) /\ g.agent.vx = 0 /\ g.agent.vy = 0 THEN Cell(g.agent)
    ELSE << >>

\* vec_step_async_discrete stores DISCRETE_ACTIONS[act] in the agent, then a
\* stepping thread runs the body of a tick
Advance(g, act, draw, lv) ==
    LET g1 == [g EXCEPT !.agent.action_dx = ActionDx(act),
                        !.agent.action_dy = ActionDy(act),
                        !.rest = RestCell(g, ActionDx(act), ActionDy(act)),
                        !.full = Abs(g.agent.vx) >= Val(MAX_SPEED),
                        !.ticks = @ + 1]
    IN  TickBody(g1, draw, lv)

StepGame(act) ==
    /\ \E draw \in (IF game.monsters = << >> THEN {0} ELSE PauseDraws) :
         \E lv \in (IF game.maze.is_terminated THEN Levels ELSE {CHOOSE l \in Levels : TRUE}) :
            game' = Advance(game, act, draw, lv)
    /\ UNCHANGED engine

\* positions of a start: every half cell of the interior, standing or in the air
StartXs == { k * (SCALE \div 2) : k \in 2..16 }
StartYs == { k * (SCALE \div 2) : k \in 2..7 }

GameAt(lv, a) ==
    [ maze |-> lv.maze, monsters |-> lv.monsters, agent |-> a,
      game_id |-> 0, time |-> 0,
      lookups |-> {}, snaps |-> {}, rest |-> << >>, full |-> FALSE,
      ticks |-> 0 ]

\* one State in the middle of an episode; ladder_mode, which nothing
\* initializes, has either value
InitPhysics ==
    /\ EngineInit
    /\ \E lv \in Levels, x \in StartXs, y \in StartYs, lm \in BOOLEAN, pu \in BOOLEAN,
          t \in {0, LEVEL_TIMEOUT}, cd \in BOOLEAN :
         /\ game = GameAt(lv, AgentAt(x, y, 0, 0, lm, pu, t, cd))
         /\ Fits(game)

PhysTick == \E act \in 0..(NUM_ACTIONS - 1) : game.ticks < MaxTicks /\ StepGame(act)

SpecPhysics == InitPhysics /\ [][PhysTick]_vars

\* an agent left alone: it stands at zero velocity on a wall or a crate of a
\* level without monsters, the caller submits one action of its choice and
\* the no-op from then on
RestXs == { k * (SCALE \div 5) : k \in 5..40 }
RestYs == { Flt(k) : k \in 1..3 }

InitRest ==
    /\ EngineInit
    /\ \E lv \in Levels, x \in RestXs, y \in RestYs, lm \in BOOLEAN :
         /\ game = GameAt([lv EXCEPT !.monsters = << >>],
                          AgentAt(x, y, 0, 0, lm, FALSE, 0, FALSE))
         /\ Fits(game) /\ Standing(game)

Press == \E act \in 0..(NUM_ACTIONS - 1) : game.ticks = 0 /\ StepGame(act)

Rest == game.ticks \in 1..MaxRest /\ StepGame(0)

NextRest == Press \/ Rest

SpecRest == InitRest /\ [][NextRest]_vars

\* an agent that runs: it starts on top of a wall or a crate at max_speed to
\* the left or to the right, anywhere in the level, and the caller submits
\* actions; full is true in the states that end a tick begun with the
\* horizontal velocity at max_speed or beyond it (clip_abs brings it to
\* max_speed before the sub-steps)
RunOffsets == { 0, 50, 100, 500, 900, 950 }
RunXs == { Flt(c) + Val(o) : c \in 1..8, o \in RunOffsets }
RunYs == { Flt(r) : r \in 1..3 }

InCell(g) == get_elem(g.maze, Trunc(g.agent.x), Trunc(g.agent.y))

\* a level with room for a whole jump under and beside a platform
RowsC ==
    <<
       << "A", "A", "A", "A", "A", "A", "A", "A", "A", "A" >>,
       << "A", ".", ".", ".", ".", ".", ".", ".", ".", "A" >>,
       << "A", ".", ".", ".", ".", ".", ".", ".", ".", "A" >>,
       << "A", ".", ".", ".", "S", "S", ".", ".", ".", "A" >>,
       << "A", ".", ".", ".", ".", ".", ".", ".", ".", "A" >>,
       << "A", ".", ".", ".", ".", ".", ".", ".", ".", "A" >>,
       << "A", ".", ".", ".", ".", ".", ".", ".", ".", "A" >>,
       << "A", ".", ".", ".", ".", ".", ".", ".", ".", "A" >>,
       << "A", "S", "S", "S", "S", "S", "S", "S", "S", "A" >> >>

\* the agent runs at max_speed; or it ran at max_speed and up was held for
\* the tick before, which leaves the spring charged with max_jump/4 and
\* the velocity blended down by mix_rate
InitRun ==
    /\ EngineInit
    /\ \E x \in RunXs, y \in RunYs, d \in {-1, 1}, lm \in BOOLEAN :
         /\ \/ game = GameAt([maze |-> MazeOf(RowsA), monsters |-> << >>],
                             AgentAt(x, y, d * Val(MAX_SPEED), 0, lm, FALSE, 0, FALSE))
            \/ game = GameAt([maze |-> MazeOf(RowsC), monsters |-> << >>],
                             [AgentAt(x, y, d * Frac(1000 - MIX_RATE, Val(MAX_SPEED)), 0,
                                      lm, FALSE, 0, FALSE)
                                EXCEPT !.spring = Val(MAX_JUMP) \div 4])
         /\ Fits(game) /\ Standing(game)

\* the caller keeps the direction of the run, with or without up, or
\* submits down
RunTick ==
    \E act \in 0..(NUM_ACTIONS - 1) :
       /\ game.ticks < MaxRun
       /\ game.agent.vx # 0
       /\ ActionDx(act) = sign(game.agent.vx) \/ ActionDy(act) = -1
       /\ StepGame(act)

SpecRun == InitRun /\ [][RunTick]_vars

\* the monsters left to roam: an agent that nothing can kill stands at the
\* spawn position and the caller submits the no-op. The model follows the
\* program as long as its lookups stay inside the walls array.
Parked(g) ==
    /\ g.monsters # << >>
    /\ g.agent.power_up_mode
    /\ Cell(g.agent) = g.maze.spawnpos
    /\ AtRest(g) /\ g.agent.spring = 0

InitRoam ==
    /\ EngineInit
    /\ \E lv \in Levels, lm \in BOOLEAN :
         game = GameAt(lv, AgentAt(Flt(lv.maze.spawnpos[1]), Flt(lv.maze.spawnpos[2]),
                                   0, 0, lm, TRUE, 0, FALSE))

RoamTick ==
    /\ Parked(game)
    /\ game.ticks < MaxRoam
    /\ \A c \in game.lookups : InArray(game.maze, c[1], c[2])
    /\ StepGame(0)

SpecRoam == InitRoam /\ [][RoamTick]_vars

(* ------------------------------ properties ---------------------------- *)
Ready(i) == St(i).agent_ready
Idle(i) == ~St(i).agent_ready /\ ~St(i).step_in_progress
\* entries of the queue plus workers holding the instance
Occurrences(i) == InQueue(i) + Cardinality(Holders(i))
InWaitLoop == cpc \in {"wait_check", "wait_presleep", "wait_sleeping"}

\* C1: vec_wait writes one entry per instance of the group, and the entry it
\* writes at position e is the reward, game_over and is_new_level of
\* states[e], whatever the order in which the workers completed the ticks.
C1_IndexAligned ==
    [][ /\ (cpc = "wait_copy" /\ out' # out) =>
              /\ Len(out') = Len(out) + 1
              /\ out'[Len(out')] = Entry(vstates[ch][Len(out')])
        /\ (cpc' = "wait_done") => Len(out') = Nenvs(ch) ]_vars

\* two instances stepped in one batch came back with different rewards
C1_Witness ==
    /\ cpc = "wait_done" /\ Len(out) = 2
    /\ out[1].rew = 0 /\ out[2].rew = 1 /\ out[1].done /\ ~out[2].done

\* C2: while vec_wait copies results out, no instance of the group is ready
\* or in progress, in the queue or held by a worker.
C2_CopyAfterCompletion ==
    cpc = "wait_copy" =>
        \A i \in InstancesOf(ch) : Idle(i) /\ Occurrences(i) = 0

\* vec_wait is about to copy the result of a tick that earned a reward
C2_Witness ==
    /\ cpc = "wait_copy" /\ ci = 1 /\ Nenvs(ch) = 2
    /\ St(<<ch, 1>>).reward = 1 /\ St(<<ch, 2>>).game_over

\* C3: a submit on a group with an instance still ready or in progress
\* aborts the process, and the instance is not enqueued a second time.
C3_ResubmitIsFatal ==
    ~aborted => \A i \in Instances : Occurrences(i) <= 1

\* C4: at most one worker is inside the body of the tick of an instance.
C4_OneWorkerPerInstance ==
    \A i \in Instances :
        Cardinality({ w \in Workers : wpc[w] = "body" /\ todo[w] = i }) <= 1

\* two workers dequeued the same instance; one steps it, the other waits
\* for state_mutex
C4_Witness ==
    \E w1, w2 \in Workers :
        /\ w1 # w2 /\ todo[w1] = todo[w2]
        /\ wpc[w1] = "body" /\ wpc[w2] = "lock"

\* C5: without shutdown and with the group registered, a submitted instance
\* is in the queue or with a worker exactly once until it is idle again,
\* every ready instance becomes idle, and a vec_wait in progress returns.
C5_BatchCompletes ==
    /\ [](\A i \in Instances :
            i[1] \in h2s => Occurrences(i) = IF Ready(i) THEN 1 ELSE 0)
    /\ \A h \in Handles : \A e \in 1..MaxEnvs :
          (h \in h2s /\ e <= Nenvs(h) /\ Ready(<<h, e>>))
             ~> (shutdown_flag \/ h \notin h2s \/ (e <= Nenvs(h) /\ Idle(<<h, e>>)))
    /\ InWaitLoop ~> (shutdown_flag \/ cpc = "wait_done")

\* vec_wait returned the results of a batch of two while no shutdown was asked
C5_Witness ==
    /\ ~shutdown_flag /\ cpc = "wait_done" /\ Len(out) = 2
    /\ out[1].rew = 1 /\ out[2].done

\* C6: when vec_wait returns, every instance of the group has reward 0,
\* game_over false and is_new_level false; and a tick starts from reward 0
\* and game_over false, so what a tick produced is reported once.
C6_ReadAndClear ==
    /\ cpc = "wait_done" =>
          \A i \in InstancesOf(ch) :
              St(i).reward = 0 /\ ~St(i).game_over /\ ~St(i).is_new_level
    /\ \A w \in Workers :
          wpc[w] = "body" => St(todo[w]).reward = 0 /\ ~St(todo[w]).game_over

\* vec_wait returned a reward, a done flag and a new-level flag
C6_Witness ==
    /\ cpc = "wait_done" /\ Len(out) = 2
    /\ out[1].rew = 1 /\ ~out[1].new_level
    /\ out[2].done /\ out[2].new_level

\* C7: after coinrun_shutdown is called every worker exits and the call
\* returns, and it has returned only when every worker has exited.
C7_ShutdownTerminates ==
    /\ [](spc = "returned" => \A w \in Workers : wpc[w] = "exited")
    /\ \A w \in Workers : shutdown_flag ~> (wpc[w] = "exited")
    /\ shutdown_flag ~> (spc = "returned")

\* coinrun_shutdown returned while an instance was still waiting in the queue
C7_Witness ==
    /\ spc = "returned" /\ workers_todo # << >>

\* C8: a caller blocked in vec_wait when coinrun_shutdown is called gets out
\* of the wait loop.
C8_WaitInterrupted ==
    []((InWaitLoop /\ ~shutdown_flag) =>
          []((InWaitLoop /\ shutdown_flag) => <>(~InWaitLoop)))

\* C9 as stated: a worker is done with a dequeued instance, and so can reach
\* the exit, only after marking it idle; and after coinrun_shutdown
\* returned no instance of a registered group is in progress.
C9_NoCancellation ==
    [][ /\ \A w \in Workers :
              (todo[w] # NoState /\ todo'[w] = NoState) =>
                  /\ ~vstates'[todo[w][1]][todo[w][2]].agent_ready
                  /\ ~vstates'[todo[w][1]][todo[w][2]].step_in_progress
        /\ (spc' = "returned") =>
              \A h \in h2s' : \A e \in 1..Len(vstates'[h]) :
                  ~vstates'[h][e].step_in_progress ]_vars

\* C9 amended: a worker exits only from the top of its loop, holding no
\* instance; it lets go of a dequeued instance only after marking it idle,
\* unless the group of the instance was closed and released; and after
\* coinrun_shutdown returned no instance of a registered group is in
\* progress or held by a worker.
C9_NoCancellationWhileAlive ==
    [][ /\ \A w \in Workers :
              /\ (wpc[w] # "exited" /\ wpc'[w] = "exited") =>
                     (wpc[w] = "check" /\ todo[w] = NoState)
              /\ (todo[w] # NoState /\ todo'[w] = NoState) =>
                     \/ ~Alive(todo[w][1])
                     \/ /\ ~vstates'[todo[w][1]][todo[w][2]].agent_ready
                        /\ ~vstates'[todo[w][1]][todo[w][2]].step_in_progress
        /\ (spc' = "returned") =>
              \A h \in h2s' : \A e \in 1..Len(vstates'[h]) :
                  /\ ~vstates'[h][e].step_in_progress
                  /\ \A w \in Workers : todo'[w] # <<h, e>> ]_vars

\* a worker that dequeued an instance after the stop flag was set has run
\* its tick and marked it idle, and coinrun_shutdown has returned
C9_Witness ==
    /\ spc = "returned"
    /\ \E h \in h2s : \E e \in 1..Nenvs(h) :
          /\ Idle(<<h, e>>) /\ St(<<h, e>>).reward = 1
          /\ pending[h]

\* the table of the seven discrete actions as the claim gives it
C10_Table ==
    [a \in 0..6 |->
        CASE a = 0 -> << 0, 0 >>  [] a = 1 -> << 1, 0 >>  [] a = 2 -> << -1, 0 >>
          [] a = 3 -> << 0, 1 >>  [] a = 4 -> << 1, 1 >>  [] a = 5 -> << -1, 1 >>
          [] a = 6 -> << 0, -1 >>]

\* C10: a submit whose indices are all in 0..6 stores the table entry of
\* each index as the control input of its instance; a submit with an index
\* outside 0..6, negative ones included, aborts the process.
\* (only a step that lengthens the queue or aborts can be a submit)
C10_ActionValidation ==
    [][ (Len(workers_todo') > Len(workers_todo) \/ aborted' # aborted) =>
        \A h \in h2s : \A acts \in [1..Nenvs(h) -> ActionInputs] :
           vec_step_async_discrete(h, acts) =>
              /\ aborted' = (\E e \in 1..Nenvs(h) : acts[e] \notin 0..6)
              /\ ~aborted' =>
                    \A e \in 1..Nenvs(h) :
                       << vstates'[h][e].action_dx, vstates'[h][e].action_dy >>
                           = C10_Table[acts[e]] ]_vars

\* a batch submitted with the indices 5 and 6 is in the queue
C10_Witness ==
    \E h \in h2s :
        /\ Nenvs(h) = 2 /\ Ready(<<h, 1>>) /\ Ready(<<h, 2>>)
        /\ St(<<h, 1>>).action_dx = -1 /\ St(<<h, 1>>).action_dy = 1
        /\ St(<<h, 2>>).action_dx = 0 /\ St(<<h, 2>>).action_dy = -1

\* C11 as stated: a close, wait or submit with a handle that is not
\* registered (closed before, or never returned by vec_create) aborts the
\* process.
C11_UnknownHandleIsFatal ==
    [][ \A h \in HandleInputs \ h2s :
            (vec_close(h) \/ WaitCall(h) \/ vec_step_async_discrete(h, << >>))
                => aborted' ]_vars

\* C11 amended: vec_close of a registered handle takes it out of the
\* registry without aborting; a wait or submit with a handle that is not
\* registered, and a close with one that is not registered and is not 0,
\* aborts the process; vec_close(0) returns and changes nothing.
C11_UnknownHandleIsFatalExceptCloseZero ==
    [][ /\ \A h \in h2s : vec_close(h) => (h \notin h2s' /\ ~aborted')
        /\ \A h \in HandleInputs \ h2s :
              /\ (WaitCall(h) \/ vec_step_async_discrete(h, << >>)) => aborted'
              /\ (h # 0 /\ vec_close(h)) => aborted'
        /\ vec_close(0) => (~aborted' /\ h2s' = h2s) ]_vars

\* a group was created and closed, vec_close(0) was ignored, and a later
\* call, which could only name a handle that is not registered, aborted
C11_Witness ==
    /\ aborted /\ ignored
    /\ h2s = {} /\ handle_seq = HANDLE_SEQ_START + 1

\* C12: vec_create returns handle_seq, which is above every handle returned
\* before (registered or closed), so handles are distinct and never reused;
\* on return the group is registered under it with exactly nenvs instances,
\* each idle and on a newly generated level.
C12_FreshHandle ==
    [][ /\ handle_seq' >= handle_seq
        /\ \A h \in Handles : (h >= handle_seq) => (h \notin h2s /\ vstates[h] = << >>)
        /\ \A n \in 1..MaxEnvs : vec_create(n) =>
              /\ handle_seq' > handle_seq
              /\ h2s' = h2s \cup {handle_seq}
              /\ Len(vstates'[handle_seq]) = n
              /\ \A e \in 1..n :
                    /\ ~vstates'[handle_seq][e].agent_ready
                    /\ ~vstates'[handle_seq][e].step_in_progress
                    /\ vstates'[handle_seq][e].is_new_level
                    /\ ~vstates'[handle_seq][e].is_terminated ]_vars

\* a second group was created after the first was closed: it has the next
\* handle, and the first is not registered
C12_Witness ==
    /\ h2s = {HANDLE_SEQ_START + 1} /\ handle_seq = HANDLE_SEQ_START + 2
    /\ Nenvs(HANDLE_SEQ_START) = 1 /\ Nenvs(HANDLE_SEQ_START + 1) = 2

\* monsters that die in this tick
NewlyDead ==
    Cardinality({ i \in 1..Len(game.monsters) :
                    ~game.monsters[i].is_dead /\ game'.monsters[i].is_dead })

\* a tick of a running episode in which the agent eats the last coin
LastCoinTick == ~game.maze.is_terminated /\ game.maze.coins > 0 /\ game'.maze.coins = 0

\* what the tick adds to a.reward for the last coin: the whole of it less the
\* kill rewards and the rewards of the other coins eaten in the tick
LastCoinEarned ==
    game'.agent.reward - game.agent.reward
    - KILL_MONSTER_REWARD * NewlyDead - (game.maze.coins - 1)

MonsterTick ==
    /\ game' # game
    /\ ~game.maze.is_terminated
    /\ ~(game.agent.collect_data /\ (game.agent.killed_animation_frame_cnt > 1
                                     \/ game.agent.finished_level_frame_cnt > 1))

\* monster i, where its step of this tick put it, against the agent, which
\* moves after the monsters
StompCase(i) == Stomps([game.monsters[i] EXCEPT !.x = game'.monsters[i].x,
                                                !.y = game'.monsters[i].y], game.agent)
TouchCase(i) == Touches([game.monsters[i] EXCEPT !.x = game'.monsters[i].x,
                                                 !.y = game'.monsters[i].y], game.agent)

\* C14: for each living monster of a tick: if its archetype is stompable, the
\* agent is above it by an offset in (0,1) and the horizontal distance is
\* below 0.6, the monster dies, the kill reward is added and this monster does
\* not kill the agent; in every other case with Manhattan distance below 1.0
\* and the agent not in power-up mode, the agent is killed, the maze is
\* terminated and the monster stays alive.
C14_StompOrDeath ==
    [][ MonsterTick =>
          \A i \in 1..Len(game.monsters) :
             ~game.monsters[i].is_dead =>
                /\ StompCase(i) =>
                     /\ game'.monsters[i].is_dead
                     /\ game'.agent.reward >= game.agent.reward + KILL_MONSTER_REWARD * NewlyDead
                     /\ game'.agent.is_killed =>
                          \E j \in 1..Len(game.monsters) :
                             j # i /\ ~game.monsters[j].is_dead /\ ~StompCase(j) /\ TouchCase(j)
                /\ (~StompCase(i) /\ TouchCase(i)) =>
                     /\ game'.agent.is_killed
                     /\ game'.agent.killed_animation_frame_cnt = DEATH_ANIM_LENGTH
                     /\ game'.maze.is_terminated
                     /\ ~game'.monsters[i].is_dead
                /\ (~StompCase(i) /\ ~TouchCase(i)) => ~game'.monsters[i].is_dead ]_vars

\* the agent came down on the stompable monster within touching distance:
\* the monster is dead, the kill reward is paid and the agent lives
C14_Witness ==
    /\ game.ticks = 1
    /\ game.monsters[2].is_dead
    /\ game.monsters[2].monster_dying_frame_cnt = MONSTER_DEATH_ANIM_LENGTH - 1
    /\ ~game.agent.is_killed /\ ~game.maze.is_terminated
    /\ game.agent.reward = KILL_MONSTER_REWARD
    /\ Abs(game.monsters[2].x - game.agent.x) + Abs(game.monsters[2].y - game.agent.y) < SCALE

(* --------------------------- level generator -------------------------- *)
MazeW == 14          \* w of the mazes generated here
MazeH == 13          \* h of state_reset
MaxSeed == 12        \* level seeds 1..MaxSeed

\* the ' ' a simulated jump leaves in the cells it passes through
TRACE == " "

\* std::mt19937 stands behind RandGen; here a stream of the same kind, a
\* function of the seed alone: x' = RandA * x mod RandM
RandM == 65521
RandA == 17364
\* stdgen()
Rnd(s) == (s * RandA) % RandM
\* RandGen::seed
Seeded(seed) == (seed % (RandM - 1)) + 1
\* RandGen::randint(0, n) of the value x of stdgen()
randint(x, n) == x % n
\* RandGen::rand01 of the value x of stdgen()
rand01(x) == Val((x * 1000) \div RandM)

\* int(sqrt(k)) for k < n * n
ISqrt(k, n) == CHOOSE r \in 0..n : r * r <= k /\ (r + 1) * (r + 1) > k

\* what the int[w*h] of a new Maze holds before anything is stored in it
Junk == {OUTSIDE, WALL_SURFACE}

\* Maze::Maze(w, h): walls is allocated and not initialized
NewMaze(w, h, junk) ==
    [ w |-> w, h |-> h, walls |-> [i \in 1..(w * h) |-> junk],
      coins |-> 0, gems |-> 0, is_terminated |-> FALSE, spawnpos |-> <<0, 0>> ]

\* Maze::fill_elem
fill_elem(m, x, y, dx, dy, elem) ==
    [m EXCEPT !.walls = [i \in DOMAIN @ |->
                           IF \E j \in 0..(dx - 1), k \in 0..(dy - 1) : i = Index(m, x + j, y + k)
                             THEN elem ELSE @[i]]]

border_fill(m) ==
    fill_elem(fill_elem(fill_elem(fill_elem(m, 0, 0, m.w, 1, WALL_SURFACE),
                                  0, 0, 1, m.h, WALL_MIDDLE),
                        m.w - 1, 0, 1, m.h, WALL_MIDDLE),
              0, m.h - 1, m.w, 1, WALL_MIDDLE)

initial_floor_and_walls_NoClear(m) == border_fill(m)

\* RandomMazeGenerator::initial_floor_and_walls
initial_floor_and_walls(m) == border_fill(fill_elem(m, 0, 0, m.w, m.h, SPACE))

\* the loop over s of the simulated jump: it stops at the first cell outside
\* rows 1..h-3 and columns 1..w-2 or not empty, and marks the others
RECURSIVE ArcLoop(_, _, _, _, _, _, _, _)
ArcLoop(m, x, y, vx, vy, ix, iy, left) ==
    IF left = 0 THEN [ok |-> TRUE, maze |-> m, ix |-> ix, iy |-> iy]
    ELSE
      LET vy1 == vy - Val(GRAVITY)
          x1 == x + vx
          y1 == y + vy1
          jx == Trunc(x1)
          jy == Trunc(y1)
      IN  IF ix = jx /\ iy = jy THEN ArcLoop(m, x1, y1, vx, vy1, ix, iy, left - 1)
          ELSE IF jx < 1 \/ jx >= m.w - 1 \/ jy < 1 \/ jy >= m.h - 2
            THEN [ok |-> FALSE, maze |-> m, ix |-> jx, iy |-> jy]
          ELSE IF get_elem(m, jx, jy) \notin {SPACE, TRACE}
            THEN [ok |-> FALSE, maze |-> m, ix |-> jx, iy |-> jy]
          ELSE ArcLoop(set_elem(m, jx, jy, TRACE), x1, y1, vx, vy1, jx, jy, left - 1)

ladder_ouch_HeightOnly(m, ix, iy) == iy >= m.h - 3

\* ouch of the ladder for the row iy it is about to enter
ladder_ouch(m, ix, iy) ==
    \/ iy >= m.h - 3
    \/ get_elem(m, ix, iy) # SPACE
    \/ get_elem(m, ix - 1, iy) = LADDER
    \/ get_elem(m, ix + 1, iy) = LADDER

\* the loop over s of the ladder: the row of its top, or -1 when a row is
\* too high, not empty or next to a ladder
RECURSIVE LadderLoop(_, _, _, _)
LadderLoop(m, ix, iy, left) ==
    IF left = 0 THEN iy
    ELSE IF ladder_ouch(m, ix, iy + 1) THEN -1
    ELSE LadderLoop(m, ix, iy + 1, left - 1)

\* set_elem(f.x, f.y, LADDER) for the future_ladder and its top
SetLadder(m, ix, from, to) ==
    [m EXCEPT !.walls = [i \in DOMAIN @ |->
                           IF \E y \in from..to : i = Index(m, ix, y) THEN LADDER ELSE @[i]]]

\* the loop over platform: q holds maze, rec_stack, crates, monster_candidates
RECURSIVE BuildPlatform(_, _, _, _, _, _, _)
BuildPlatform(q, ix, iy, dir, len, platform, crates_shift) ==
    IF platform = len THEN q
    ELSE
      LET jx == ix + dir
          c == get_elem(q.maze, jx, iy)
          crate == ((jx \div 5) + iy + crates_shift) % 4 = 0
      IN  IF c \in {TRACE, SPACE}
            THEN BuildPlatform(
                   [q EXCEPT
                      !.maze = set_elem(@, jx, iy,
                                        IF platform < len - 1 THEN WALL_SURFACE
                                        ELSE IF dir > 0 THEN "b" ELSE "a"),
                      !.rec_stack = Append(@, <<jx, iy + 1>>),
                      !.crates = IF crate THEN Append(@, <<jx, iy + 1>>) ELSE @,
                      !.monster_candidates =
                          IF ~crate /\ platform > 0 /\ platform < len - 1
                            THEN Append(@, <<jx, iy + 1>>) ELSE @],
                   jx, iy, dir, len, platform + 1, crates_shift)
          ELSE [q EXCEPT !.maze = IF c \in {"a", "b"} THEN set_elem(@, jx, iy, WALL_SURFACE) ELSE @]

Remove(s, i) == SubSeq(s, 1, i - 1) \o SubSeq(s, i + 1, Len(s))
AsInt(b) == IF b THEN 1 ELSE 0

\* one pass of the for loop over crates: a crate grows by one cell or is dropped
RECURSIVE CratePass(_, _)
CratePass(q, c) ==
    IF c > Len(q.crates) THEN q
    ELSE
      LET cr == q.crates[c]
          x == Rnd(q.rng)
          w == get_elem(q.maze, cr[1], cr[2])
          wl == get_elem(q.maze, cr[1] - 1, cr[2])
          wr == get_elem(q.maze, cr[1] + 1, cr[2])
          wu == get_elem(q.maze, cr[1], cr[2] + 1)
          want == 2 + AsInt(is_crat(wl)) + AsInt(is_crat(wr)) - AsInt(wr = LADDER)
                    - AsInt(wl = LADDER) - AsInt(is_wall(wu, FALSE))
      IN  IF randint(x, 4) < want /\ cr[2] < q.maze.h - 2
            THEN CratePass(
                   [q EXCEPT !.rng = x,
                             !.maze = IF w \in {TRACE, SPACE} THEN set_elem(@, cr[1], cr[2], "#") ELSE @,
                             !.crates[c] = <<cr[1], cr[2] + 1>>,
                             !.rec_stack = Append(@, <<cr[1], cr[2] + 1>>)],
                   c + 1)
          ELSE CratePass([q EXCEPT !.rng = x, !.crates = Remove(@, c)], c)

\* while (1) over the crates
RECURSIVE GrowCrates(_)
GrowCrates(q) == IF q.crates = << >> THEN q ELSE GrowCrates(CratePass(q, 1))

\* the part of jump_and_build_platform_somewhere after the jump or the
\* ladder ended in (ix, iy): platform, monster marker, crates
Platform(q0, ix, iy, vx) ==
    LET m0 == q0.maze
        c == get_elem(m0, ix, iy)
        dir == IF vx > 0 THEN 1 ELSE -1
        m1 == IF c \in {SPACE, TRACE} THEN set_elem(m0, ix, iy, IF vx > 0 THEN "a" ELSE "b") ELSE m0
        x1 == Rnd(q0.rng)
        len == 2 + randint(x1, 10)
        x2 == Rnd(x1)
        crates_shift == randint(x2, 20)
        q1 == BuildPlatform([q0 EXCEPT !.maze = m1, !.rng = x2], ix, iy, dir, len, 0, crates_shift)
        x3 == Rnd(q1.rng)
        x4 == Rnd(x3)
        q2 == IF Len(q1.monster_candidates) > 1
                THEN LET r == q1.monster_candidates[randint(x3, Len(q1.monster_candidates)) + 1]
                     IN  [q1 EXCEPT !.rng = x4,
                                    !.ranges = @ \cup {Len(q1.monster_candidates)},
                                    !.maze = set_elem(@, r[1], r[2],
                                                      IF randint(x4, 10) >= 8 THEN GROUND_MONSTER
                                                      ELSE WALKING_MONSTER)]
                ELSE q1
    IN  IF iy >= m0.h - 3 THEN [q |-> q0, success |-> FALSE]
        ELSE [q |-> GrowCrates(q2), success |-> TRUE]

\* jump_and_build_platform_somewhere: q holds maze, rec_stack and rng, the
\* index n with the size it is asserted to be below, and the ranges given
\* to randn that are not literals
jump_and_build_platform_somewhere(q) ==
    LET size == Len(q.rec_stack)
        x1 == Rnd(q.rng)
        n == ISqrt(randint(x1, size * size), size)
        r == q.rec_stack[n + 1]
        x2 == Rnd(x1)
        vx == Frac(MAX_SPEED, Frac(500, 2 * rand01(x2) - SCALE))
        x3 == Rnd(x2)
        vy == Frac(MAX_JUMP, Val(800) + Frac(200, rand01(x3)))
        top == 1 + (vy \div Val(GRAVITY))
        x4 == Rnd(x3)
        x5 == Rnd(x4)
        q4 == [q EXCEPT !.rng = x4, !.anchor = <<n, size>>, !.ranges = {size * size}]
                @@ [crates |-> << >>, monster_candidates |-> << >>]
        q5 == [q4 EXCEPT !.rng = x5]
    IN  IF size = 0 THEN [q |-> q, success |-> FALSE]
        ELSE IF randint(x4, 2) = 1
          THEN LET steps == top + randint(x5, top \div 2)
                   arc == ArcLoop(q.maze, Flt(r[1]), Flt(r[2] + 1), vx, vy, -1, -1, steps)
                   q6 == [q5 EXCEPT !.maze = arc.maze, !.ranges = @ \cup {top \div 2}]
               IN  IF arc.ok THEN Platform(q6, arc.ix, arc.iy, vx)
                   ELSE [q |-> q6, success |-> FALSE]
        ELSE IF r[2] >= q.maze.h - 3 THEN [q |-> q4, success |-> FALSE]
        ELSE IF is_crat(get_elem(q.maze, r[1], r[2])) \/ is_crat(get_elem(q.maze, r[1], r[2] - 1))
          THEN [q |-> q4, success |-> FALSE]
        ELSE LET q6 == [q5 EXCEPT !.rec_stack = Remove(@, n + 1)]
                 ladder_len == 5 + randint(x5, 10)
                 iy == LadderLoop(q.maze, r[1], r[2], ladder_len)
             IN  IF iy < 0 THEN [q |-> q6, success |-> FALSE]
                 ELSE Platform([q6 EXCEPT !.maze = SetLadder(@, r[1], r[2], iy)], r[1], iy, vx)

good_place_BelowOnly(m, x, y) ==
    /\ get_elem(m, x, y) \in {SPACE, WALKING_MONSTER}
    /\ y > 2
    /\ is_wall(get_elem(m, x, y - 1), TRUE)

\* good_place of place_coins for the Rec (x, y)
good_place(m, x, y) ==
    /\ get_elem(m, x, y) \in {SPACE, WALKING_MONSTER}
    /\ y > 2
    /\ get_elem(m, x - 1, y) \in {SPACE, WALKING_MONSTER}
    /\ get_elem(m, x + 1, y) \in {SPACE, WALKING_MONSTER}
    /\ get_elem(m, x, y + 1) \in {SPACE, WALKING_MONSTER}
    /\ is_wall(get_elem(m, x - 1, y - 1), TRUE)
    /\ is_wall(get_elem(m, x, y - 1), TRUE)
    /\ is_wall(get_elem(m, x + 1, y - 1), TRUE)

\* the body of the while loop of place_coins for the Rec popped: q holds
\* maze, rec_stack, rng and the local count coins
PlaceCoin(q) ==
    LET r == q.rec_stack[Len(q.rec_stack)]
        d == Rnd(q.rng)
        q1 == [q EXCEPT !.rec_stack = SubSeq(@, 1, Len(@) - 1)]
    IN  IF good_place(q.maze, r[1], r[2])
          THEN [q1 EXCEPT !.rng = d,
                          !.maze = IF randint(d, 10) >= 9
                                     THEN [set_elem(@, r[1], r[2], COIN_OBJ2) EXCEPT !.gems = @ + 1]
                                     ELSE set_elem(@, r[1], r[2], COIN_OBJ1),
                          !.coins = @ + 1]
          ELSE q1

\* ground_monsters, flying_monsters, walking_monsters in the order they are
\* loaded into ground_theme_idxs, flying_theme_idxs, walking_theme_idxs
ground_theme_idxs == << "sawHalf", "barnacle" >>
flying_theme_idxs == << "bee" >>
walking_theme_idxs == << "slimeBlock", "slimeBlue", "mouse", "snail", "ladybug", "wormPink", "frog" >>

\* the test that keeps a Monster, without its first conjunct
Keeps_AnySides(is_flying, is_walking, cl, cr, b) ==
    ~(~is_flying /\ ~is_wall(b, FALSE))

\* (!is_walking || (!is_wall(cl) && !is_wall(cr))) && !(!is_flying && !is_wall(b)):
\* a walking monster has free space to move, a walking or ground monster is
\* on a platform
Keeps(is_flying, is_walking, cl, cr, b) ==
    /\ ~is_walking \/ (~is_wall(cl, FALSE) /\ ~is_wall(cr, FALSE))
    /\ ~(~is_flying /\ ~is_wall(b, FALSE))

\* the body of the loops of remove_traces_add_monsters for the cell (x, y):
\* q holds maze, monsters and rng
TraceCell(q, x, y) ==
    LET m == q.maze
        c0 == get_elem(m, x, y)
        b0 == get_elem(m, x, y - 1)
        cl == get_elem(m, x - 1, y)
        cr == get_elem(m, x + 1, y)
        d1 == Rnd(q.rng)
        rng1 == IF c0 = TRACE THEN d1 ELSE q.rng
        c1 == IF c0 = TRACE
                THEN IF randint(d1, 20) = 0 /\ ~is_wall(b0, FALSE) /\ y > 2
                       THEN FLYING_MONSTER ELSE SPACE
                ELSE c0
        c2 == IF c1 \in {"a", "b"} /\ is_wall(b0, FALSE) THEN WALL_SURFACE ELSE c1
        b1 == IF is_wall(c2, FALSE) /\ is_wall(b0, FALSE) THEN WALL_MIDDLE ELSE b0
        marker == c2 \in {FLYING_MONSTER, WALKING_MONSTER, GROUND_MONSTER}
        is_flying == c2 = FLYING_MONSTER
        is_walking == c2 = WALKING_MONSTER
        type_theme_idxs == IF is_flying THEN flying_theme_idxs
                           ELSE IF is_walking THEN walking_theme_idxs
                           ELSE ground_theme_idxs
        d2 == Rnd(rng1)
        mo == NewMonster(x, y, is_flying, is_walking,
                         type_theme_idxs[randint(d2, Len(type_theme_idxs)) + 1])
        keep == Keeps(is_flying, is_walking, cl, cr, b1)
        m1 == set_elem(set_elem(m, x, y - 1, b1), x, y, IF marker THEN SPACE ELSE c2)
    IN  [q EXCEPT !.maze = m1,
                  !.rng = IF marker THEN d2 ELSE rng1,
                  !.ranges = IF marker THEN {Len(type_theme_idxs)} ELSE {},
                  !.monsters = IF marker /\ keep THEN Append(@, mo) ELSE @]

\* the RandomMazeGenerator of a state_reset on its way through
\* generate_coins_on_platforms: the for loop over p, the while loop of
\* place_coins, the loops over y and x of remove_traces_add_monsters
Generator(seed, w) ==
    LET d == Rnd(Seeded(seed))
    IN  [ rng |-> d, spawn |-> 1 + randint(d, w - 2),
          rec_stack |-> [x \in 1..w |-> <<x - 1, 1>>],
          want_platforms |-> 11, p |-> 0, coins |-> 0, cell |-> 0,
          anchor |-> << >>, ranges |-> {w - 2}, dropped |-> 0,
          at |-> "platforms" ]

\* state_reset up to the for loop of generate_coins_on_platforms, for the
\* level_seed drawn, on a State s whose new Maze holds junk
GenStart(s, seed, junk) ==
    LET gen == Generator(seed, MazeW)
        m == initial_floor_and_walls(NewMaze(MazeW, MazeH, junk))
    IN  [ maze |-> [m EXCEPT !.spawnpos = <<gen.spawn, 1>>],
          monsters |-> << >>, agent |-> s.agent,
          game_id |-> s.game_id, time |-> s.time,
          lookups |-> {}, snaps |-> {}, rest |-> << >>, full |-> FALSE, ticks |-> 0,
          gen |-> gen ]

LoopEnds_OnlyWhenAll(want_platforms, p) == want_platforms = 0

\* the for loop over p of generate_coins_on_platforms is left: by the break,
\* or because p < want_platforms*10 fails
LoopEnds(want_platforms, p) == want_platforms = 0 \/ p >= want_platforms * 10

\* one pass of the for loop over p, res being what
\* jump_and_build_platform_somewhere returned
PlatformPass(g, res, p) ==
    [g EXCEPT !.maze = res.q.maze,
              !.gen.rec_stack = res.q.rec_stack,
              !.gen.rng = res.q.rng,
              !.gen.anchor = res.q.anchor,
              !.gen.ranges = res.q.ranges,
              !.gen.want_platforms = @ - AsInt(res.success),
              !.gen.p = p,
              !.gen.at = IF LoopEnds(g.gen.want_platforms - AsInt(res.success), p)
                           THEN "coins" ELSE "platforms"]

\* one pass of the while loop of place_coins, q being what it left
CoinPass(g, q) ==
    [g EXCEPT !.maze = q.maze, !.gen.rec_stack = q.rec_stack,
              !.gen.rng = q.rng, !.gen.coins = q.coins,
              !.gen.anchor = << >>, !.gen.ranges = {}]

\* one cell of remove_traces_add_monsters, q being what it left; after the
\* last cell state_reset resets the agent. dropped counts the markers of
\* Platform that made no Monster
TracePass(g, q, last) ==
    [g EXCEPT !.maze = q.maze, !.monsters = q.monsters,
              !.gen.dropped = IF /\ q.monsters = g.monsters
                                 /\ get_elem(g.maze, 1 + (g.gen.cell % (g.maze.w - 2)),
                                             1 + (g.gen.cell \div (g.maze.w - 2)))
                                      \in {WALKING_MONSTER, GROUND_MONSTER}
                                THEN @ + 1 ELSE @,
              !.gen.rng = q.rng, !.gen.ranges = q.ranges, !.gen.cell = @ + 1,
              !.gen.at = IF last THEN "done" ELSE "traces",
              !.agent = IF last THEN [AgentReset(@, q.maze) EXCEPT !.kills = 0] ELSE @,
              !.time = IF last THEN 0 ELSE @,
              !.game_id = IF last THEN @ + 1 ELSE @]

\* one more step of state_reset
GenStep(g) ==
    CASE g.gen.at = "platforms" ->
           PlatformPass(g, jump_and_build_platform_somewhere(
                               [maze |-> g.maze, rec_stack |-> g.gen.rec_stack,
                                rng |-> g.gen.rng, anchor |-> << >>, ranges |-> {}]),
                        g.gen.p + 1)
      [] g.gen.at = "coins" ->
           IF g.gen.rec_stack = << >>
             THEN [g EXCEPT !.maze.coins = g.gen.coins, !.gen.at = "traces",
                            !.gen.anchor = << >>, !.gen.ranges = {}]
             ELSE CoinPass(g, PlaceCoin([maze |-> g.maze, rec_stack |-> g.gen.rec_stack,
                                         rng |-> g.gen.rng, coins |-> g.gen.coins]))
      [] g.gen.at = "traces" ->
           TracePass(g, TraceCell([maze |-> g.maze, monsters |-> g.monsters,
                                   rng |-> g.gen.rng, ranges |-> {}],
                                  1 + (g.gen.cell % (g.maze.w - 2)),
                                  1 + (g.gen.cell \div (g.maze.w - 2))),
                     g.gen.cell + 1 = (g.maze.w - 2) * (g.maze.h - 1))
      [] OTHER -> g

\* a State as vec_create makes it, before its first state_reset
FreshState(lm) ==
    [GameAt([maze |-> NewMaze(0, 0, OUTSIDE), monsters |-> << >>],
            AgentAt(0, 0, 0, 0, lm, FALSE, 0, FALSE)) EXCEPT !.game_id = -1]

InitGen ==
    /\ EngineInit
    /\ \E seed \in 1..MaxSeed, junk \in Junk, lm \in BOOLEAN :
          game = GenStart(FreshState(lm), seed, junk)

\* a State under state_reset or in an episode of a level
Generating(g) == "gen" \in DOMAIN g /\ g.gen.at # "done"

GenPlatform == Generating(game) /\ game.gen.at = "platforms" /\ game' = GenStep(game) /\ UNCHANGED engine
GenCoin == Generating(game) /\ game.gen.at = "coins" /\ game' = GenStep(game) /\ UNCHANGED engine
GenTraces == Generating(game) /\ game.gen.at = "traces" /\ game' = GenStep(game) /\ UNCHANGED engine

\* ticks of the episode on the level made
Play ==
    /\ ~Generating(game)
    /\ game.ticks < MaxTicks
    /\ ~game.maze.is_terminated
    /\ \E act \in 0..(NUM_ACTIONS - 1) : StepGame(act)

NextGen == GenPlatform \/ GenCoin \/ GenTraces \/ Play

SpecGen == InitGen /\ [][NextGen]_vars

GridTick == ~Generating(game) /\ PhysTick

InitGrid == InitGen \/ InitPhysics

NextGrid == GenPlatform \/ GenCoin \/ GenTraces \/ GridTick

SpecGrid == InitGrid /\ [][NextGrid]_vars


\* a tick of a running episode for which the caller submitted the no-op
NoopTick ==
    /\ game' # game
    /\ ~game.maze.is_terminated
    /\ game'.agent.action_dx = 0 /\ game'.agent.action_dy = 0

\* C15 as stated: an agent with zero input and zero velocity standing on a
\* wall tile or on a crate is in the same cell, grounded and at zero velocity
\* after every further zero-input tick of the episode.
C15_RestingAgentStays ==
    game.rest # << >> =>
       /\ Cell(game.agent) = game.rest
       /\ game.agent.support
       /\ game.agent.vx = 0 /\ game.agent.vy = 0

\* C15 amended: an agent with zero input and zero velocity standing on a wall
\* tile or on a crate, with no jump charge and not in ladder-mode, is after
\* the tick in the same cell, grounded, at zero velocity, without charge and
\* out of ladder-mode, hence after any number of such ticks of the episode.
C15_UnchargedOffLadderStays ==
    [][ (NoopTick /\ AtRest(game) /\ game.agent.spring = 0 /\ ~game.agent.ladder_mode) =>
          /\ Cell(game'.agent) = Cell(game.agent)
          /\ game'.agent.support
          /\ AtRest(game')
          /\ game'.agent.spring = 0 /\ ~game'.agent.ladder_mode ]_vars

\* the agent has stood on a crate, left alone, for MaxRest ticks
C15_Witness ==
    /\ game.ticks = MaxRest + 1
    /\ game.rest = Cell(game.agent)
    /\ is_crat(get_elem(game.maze, game.rest[1], game.rest[2] - 1))
    /\ AtRest(game) /\ game.agent.support
    /\ game.agent.spring = 0 /\ ~game.agent.ladder_mode

\* C16: after a tick begun at max horizontal speed the agent's position is in
\* no wall tile; every horizontal collision of the tick left the horizontal
\* velocity zero and the position on a cell boundary, and the agent ends the
\* tick on that boundary below max speed, from every starting position and
\* height.
C16_NeverInsideWall ==
    game.full =>
       /\ ~is_wall(InCell(game), FALSE)
       /\ \A s \in game.snaps : s[2] = 0 /\ s[1] = Flt(Trunc(s[1]))
       /\ game.snaps # {} =>
            /\ game.agent.x = Flt(Trunc(game.agent.x))
            /\ Abs(game.agent.vx) < Val(MAX_SPEED)

\* the agent has run into the wall at the right of the floor and stands
\* against it
C16_Witness ==
    /\ game.full
    /\ game.snaps # {}
    /\ ~game.maze.is_terminated
    /\ game.agent.x = Flt(5) /\ game.agent.y = Flt(1)
    /\ is_wall(get_elem(game.maze, 6, 1), FALSE)

\* C20: every tile lookup of a tick, by the agent (ladder sampling, footprint
\* probes, horizontal probe, the four pickup cells) and by the monsters
\* (look-ahead, ledge feel, landing probe), has 0 <= x < w and 0 <= y < h.
C20_LookupsInsideGrid ==
    \A c \in game.lookups : 0 <= c[1] /\ c[1] < game.maze.w /\ 0 <= c[2] /\ c[2] < game.maze.h

\* two state_reset calls of one process that draw the same level_seed: the
\* first on a State as vec_create makes it, the second on a State of its own
\* or on one that finished an episode, after other draws from
\* global_rand_gen; raw is what the two new int[w*h] held
MaxDraws == 1        \* draws from global_rand_gen between the two calls

Priors ==
    { FreshState(FALSE), FreshState(TRUE) } \cup
    { GameAt(lv, AgentAt(Flt(2), Flt(1), 0, 0, FALSE, TRUE, 5, FALSE)) : lv \in Levels }

InitTwin ==
    /\ EngineInit
    /\ \E seed \in 1..MaxSeed, j1 \in Junk, j2 \in Junk, s \in Priors :
          game = [ one |-> GenStart(FreshState(FALSE), seed, j1),
                   two |-> GenStart(s, seed, j2),
                   raw |-> <<j1, j2>>, global |-> 0 ]

FirstRun ==
    /\ Generating(game.one)
    /\ game' = [game EXCEPT !.one = GenStep(@)]
    /\ UNCHANGED engine

OtherDraw ==
    /\ ~Generating(game.one) /\ game.two.gen.p = 0
    /\ game.global < MaxDraws
    /\ game' = [game EXCEPT !.global = @ + 1]
    /\ UNCHANGED engine

SecondRun ==
    /\ ~Generating(game.one) /\ Generating(game.two)
    /\ game' = [game EXCEPT !.two = GenStep(@)]
    /\ UNCHANGED engine

NextTwin == FirstRun \/ OtherDraw \/ SecondRun

SpecTwin == InitTwin /\ [][NextTwin]_vars

(* ----------------------- claims on the generator ---------------------- *)
CoinCells(m) == { c \in (0..(m.w - 1)) \X (0..(m.h - 1)) :
                    get_elem(m, c[1], c[2]) \in {COIN_OBJ1, COIN_OBJ2} }
BorderCells(m) == { c \in (0..(m.w - 1)) \X (0..(m.h - 1)) :
                      c[1] = 0 \/ c[1] = m.w - 1 \/ c[2] = 0 \/ c[2] = m.h - 1 }
Open(c) == ~is_wall(c, TRUE) /\ c \notin {LADDER, COIN_OBJ1, COIN_OBJ2}

\* C17: two runs of the generator with the same seed end with the same tile
\* grid, coin count and spawn position and the same list of monsters,
\* whatever the State they reset held before, whatever the new arrays held
\* and however many draws were made from global_rand_gen in between
C17_SameSeedSameLevel ==
    (~Generating(game.one) /\ ~Generating(game.two)) =>
        /\ game.one.maze.walls = game.two.maze.walls
        /\ game.one.maze.coins = game.two.maze.coins
        /\ game.one.maze.spawnpos = game.two.maze.spawnpos
        /\ game.one.monsters = game.two.monsters

\* C17 witness: both runs are over, on arrays that held different values,
\* the second on a State with another history and after a draw from
\* global_rand_gen; the level has a coin and a monster
C17_Witness ==
    /\ ~Generating(game.one) /\ ~Generating(game.two)
    /\ game.raw[1] # game.raw[2]
    /\ game.one.agent # game.two.agent
    /\ game.global > 0
    /\ game.one.maze.coins > 0
    /\ game.one.monsters # << >>

\* C18: every coin or gem tile of a grid under generation, of the finished
\* grid and of the episode played on it has a wall or a crate in each of the
\* three cells beneath it and no wall, crate, ladder, coin or gem to its
\* left, to its right and above it
C18_CoinsWellPlaced ==
    \A c \in CoinCells(game.maze) :
       /\ is_wall(get_elem(game.maze, c[1] - 1, c[2] - 1), TRUE)
       /\ is_wall(get_elem(game.maze, c[1], c[2] - 1), TRUE)
       /\ is_wall(get_elem(game.maze, c[1] + 1, c[2] - 1), TRUE)
       /\ Open(get_elem(game.maze, c[1] - 1, c[2]))
       /\ Open(get_elem(game.maze, c[1] + 1, c[2]))
       /\ Open(get_elem(game.maze, c[1], c[2] + 1))

\* C18 witness: a finished grid with two coin or gem tiles, counted in coins
C18_Witness ==
    /\ game.gen.at = "done"
    /\ Cardinality(CoinCells(game.maze)) >= 2
    /\ game.maze.coins = Cardinality(CoinCells(game.maze))

\* C19: every cell of column 0, column w-1, row 0 and row h-1 is a wall
\* tile at every step of the generation and after every tick
C19_BorderSolid ==
    \A c \in BorderCells(game.maze) : is_wall(get_elem(game.maze, c[1], c[2]), FALSE)

\* C19 witness: a tick was played on a generated grid that holds a ladder, a
\* crate, a coin or gem, and a platform that ends at the border
C19_Witness ==
    /\ "gen" \in DOMAIN game /\ game.gen.at = "done" /\ game.ticks > 0
    /\ CoinCells(game.maze) # {}
    /\ \E i \in DOMAIN game.maze.walls : game.maze.walls[i] = LADDER
    /\ \E i \in DOMAIN game.maze.walls : is_crat(game.maze.walls[i])
    /\ \E y \in 2..(game.maze.h - 2) : is_wall(get_elem(game.maze, 1, y), FALSE)

\* what is left of state_reset: attempts of the for loop over p, then Recs
\* of the while loop of place_coins, then cells of remove_traces_add_monsters
GenRank(g) ==
    CASE g.gen.at = "platforms" -> 20000 + 110 - g.gen.p
      [] g.gen.at = "coins" -> 10000 + Len(g.gen.rec_stack)
      [] g.gen.at = "traces" -> (g.maze.w - 2) * (g.maze.h - 1) - g.gen.cell
      [] OTHER -> 0

GenInBounds(g) ==
    /\ g.gen.p <= 110
    /\ 11 - g.gen.want_platforms \in 0..11
    /\ g.gen.p >= 11 - g.gen.want_platforms
    /\ g.gen.at = "platforms" => g.gen.want_platforms > 0 /\ g.gen.p < 10 * g.gen.want_platforms
    /\ g.gen.anchor # << >> => 0 <= g.gen.anchor[1] /\ g.gen.anchor[1] < g.gen.anchor[2]
    /\ \A r \in g.gen.ranges : r > 0
    /\ Len(g.gen.rec_stack) < 10000

\* C21: generation makes at most 110 attempts, stops at the 11th success,
\* goes on to the coins with 0 to 11 successes, never fails an assertion
\* (the anchor index is below the stack size, every range given to randn is
\* positive), and ends: every step of it leaves less to do
C21_GenerationEnds ==
    [][ Generating(game) =>
           /\ GenInBounds(game) /\ GenInBounds(game')
           /\ 0 <= GenRank(game') /\ GenRank(game') < GenRank(game) ]_vars

\* C21 witness: a generation over, ended by the limit on attempts with some
\* platforms made and some not
C21_Witness ==
    /\ game.gen.at = "done"
    /\ game.gen.want_platforms \in 1..10
    /\ game.gen.p = 10 * game.gen.want_platforms

(* ------------------- the frames after an episode's end ----------------- *)
MaxFrames == 32      \* ticks explored once an episode has ended

\* one State of a group created with or without collect_data, in the
\* middle of an episode
InitFrames ==
    /\ EngineInit
    /\ \E lv \in Levels, x \in StartXs, y \in StartYs, lm \in BOOLEAN, pu \in BOOLEAN,
          cd \in BOOLEAN :
         /\ game = GameAt(lv, AgentAt(x, y, 0, 0, lm, pu, 0, cd))
         /\ Fits(game)

\* a first tick with any action, and the ticks that follow the end of the
\* episode if it ended the episode
FrameTick ==
    \E act \in 0..(NUM_ACTIONS - 1) :
        /\ game.ticks < MaxFrames
        /\ game.ticks = 0 \/ game.maze.is_terminated
        /\ StepGame(act)

SpecFrames == InitFrames /\ [][FrameTick]_vars

AnimationTick(g) ==
    g.agent.collect_data
    /\ (g.agent.killed_animation_frame_cnt > 1 \/ g.agent.finished_level_frame_cnt > 1)

\* the State right after state_reset, at the end of the tick that ran it
FreshEpisode(g) ==
    /\ \E lv \in Levels : g.maze = lv.maze /\ g.monsters = lv.monsters
    /\ ~g.maze.is_terminated
    /\ g.agent.game_over
    /\ g.agent.x = Flt(g.maze.spawnpos[1]) /\ g.agent.y = Flt(g.maze.spawnpos[2])
    /\ g.agent.vx = 0 /\ g.agent.vy = 0 /\ g.agent.spring = 0
    /\ g.agent.action_dx = 0 /\ g.agent.action_dy = 0
    /\ g.agent.time_alive = 0
    /\ ~g.agent.is_killed /\ ~g.agent.power_up_mode
    /\ g.agent.killed_animation_frame_cnt = 0 /\ g.agent.finished_level_frame_cnt = 0

C24_FlagsClearWhenIdle ==
    game.ticks > 0 =>
        /\ ~game.agent.bumped_head
        /\ ~game.agent.collected_coin
        /\ ~game.agent.collected_gem
        /\ ~game.agent.killed_monster

(* ------------------------- a level with gems --------------------------- *)
\* the grid of RowsB with a gem on either side of its coins
RowsG ==
    << 
       << "A", "A", "A", "A", "A", "A", "A", "A", "A", "A" >>,
       << "A", ".", ".", ".", ".", ".", ".", ".", ".", "A" >>,
       << "A", ".", ".", ".", ".", ".", ".", ".", ".", "A" >>,
       << "A", ".", "2", "1", ".", "=", ".", "1", "2", "A" >>,
       << "A", ".", "a", "S", "b", "=", "#", "#", "#", "A" >>,
       << "A", ".", ".", ".", ".", "=", "S", "S", "S", "A" >>,
       << "A", "S", "S", "S", "S", "S", "A", "A", "A", "A" >> >>

\* gem tiles left in the grid
Gems(m) == Cardinality({ i \in DOMAIN m.walls : is_gem(m.walls[i]) })

\* one State in the middle of an episode on the level with gems
InitPower ==
    /\ EngineInit
    /\ \E x \in StartXs, y \in StartYs, lm \in BOOLEAN, pu \in BOOLEAN, cd \in BOOLEAN :
         /\ game = GameAt([maze |-> MazeOf(RowsG), monsters |-> MonstersOf],
                          AgentAt(x, y, 0, 0, lm, pu, 0, cd))
         /\ Fits(game)

SpecPower == InitPower /\ [][PhysTick]_vars

(* ------------------------------- jumps --------------------------------- *)
MaxJump == 4         \* ticks explored from an agent at rest

\* the actions without horizontal input: none, up, down
JumpActions == { act \in 0..(NUM_ACTIONS - 1) : ActionDx(act) = 0 }

\* an agent standing at zero velocity on a wall or a crate, on or off a ladder
InitJump ==
    /\ EngineInit
    /\ \E lv \in Levels, x \in RestXs, y \in RestYs, lm \in BOOLEAN :
         /\ game = GameAt(lv, AgentAt(x, y, 0, 0, lm, FALSE, 0, FALSE))
         /\ Fits(game) /\ Standing(game)

JumpTick == \E act \in JumpActions : game.ticks < MaxJump /\ StepGame(act)

SpecJump == InitJump /\ [][JumpTick]_vars

(* --------------------------- the level seeds --------------------------- *)
MaxPool == 3         \* largest NUM_LEVELS given to initialize_args
MaxResets == 6       \* calls of state_reset explored after initialize_args

\* training_sets_seed and rand_seed given to initialize_args
PoolSeeds == {-1, 3, 4}
RandSeeds == {1, 2}

\* the int a value of stdgen() becomes in 'return stdgen()' and in
\* 'LEVEL_SEEDS[i] = ...', at the width of the values of Rnd
ToInt(x) == IF x >= 32768 THEN x - 65536 ELSE x

\* for (i = 0; i < NUM_LEVELS; i++) LEVEL_SEEDS[i] = global_rand_gen.randint()
RECURSIVE PreDrawn(_, _)
PreDrawn(s, n) ==
    IF n = 0 THEN << >> ELSE << ToInt(Rnd(s)) >> \o PreDrawn(Rnd(s), n - 1)

\* the globals after initialize_args(int_args, float_args)
initialize_args(n, training_sets_seed, rand_seed) ==
    LET use == n > 0 /\ training_sets_seed # -1
    IN  [ NUM_LEVELS |-> n,
          USE_LEVEL_SET |-> use,
          LEVEL_SEEDS |-> IF use THEN PreDrawn(Seeded(training_sets_seed), n) ELSE << >>,
          training_sets_seed |-> training_sets_seed,
          global |-> IF training_sets_seed # -1 THEN Seeded(training_sets_seed)
                     ELSE Seeded(rand_seed),
          level_seed |-> 0, raw |-> 0, resets |-> 0, draws |-> 0 ]

\* a level seed that ignores the pool
LevelSeed_Unrestricted(g, x) == ToInt(x)

\* the level_seed state_reset takes for the value x of stdgen()
LevelSeed(g, x) ==
    IF g.USE_LEVEL_SET THEN g.LEVEL_SEEDS[randint(x, g.NUM_LEVELS) + 1]
    ELSE IF g.NUM_LEVELS > 0 THEN randint(x, g.NUM_LEVELS)
    ELSE ToInt(x)

InitPool ==
    /\ EngineInit
    /\ \E n \in 0..MaxPool, ts \in PoolSeeds, rs \in RandSeeds :
          game = initialize_args(n, ts, rs)

\* state_reset of some instance, at vec_create or at the end of an episode
PoolReset ==
    /\ game.resets < MaxResets
    /\ LET x == Rnd(game.global)
       IN  game' = [game EXCEPT !.global = x, !.raw = x,
                                !.level_seed = LevelSeed(game, x),
                                !.resets = @ + 1]
    /\ UNCHANGED engine

\* Monster::step of some instance draws a pause
PauseDraw ==
    /\ game.draws < MaxDraws
    /\ game' = [game EXCEPT !.global = Rnd(@), !.draws = @ + 1]
    /\ UNCHANGED engine

NextPool == PoolReset \/ PauseDraw

SpecPool == InitPool /\ [][NextPool]_vars

\* C27: power_up_mode is switched on by the pickup of a gem and by nothing
\* else, and off by the pickup of a coin or by the reset of the episode and
\* by nothing else, and a tick that starts with power_up_mode set and the
\* agent alive never ends with the agent killed: its monsters do not kill
\* (the grids of these levels hold no lethal tile)
C27_PowerUpImmunity ==
    [][ LET a == game.agent
            b == game'.agent
            gem == Gems(game'.maze) < Gems(game.maze)
            coin == game'.maze.coins < game.maze.coins
        IN  IF b.game_over THEN ~b.power_up_mode
            ELSE /\ (~a.power_up_mode /\ b.power_up_mode) => gem
                 /\ (a.power_up_mode /\ ~b.power_up_mode) => coin
                 /\ (gem /\ ~coin) => b.power_up_mode
                 /\ (coin /\ ~gem) => ~b.power_up_mode
                 /\ (a.power_up_mode /\ ~a.is_killed) => ~b.is_killed ]_vars

\* C27 witness: after two ticks the agent has picked up a gem, is in
\* power-up mode and alive within reach of a live monster
C27_Witness ==
    /\ game.ticks = 2
    /\ Gems(game.maze) = 1
    /\ game.agent.power_up_mode /\ ~game.agent.is_killed /\ ~game.maze.is_terminated
    /\ \E i \in DOMAIN game.monsters :
          /\ ~game.monsters[i].is_dead
          /\ Touches_IgnorePowerUp(game.monsters[i], game.agent)

\* the tick ran Agent::step and did not reset the episode
AgentStepped == game'.agent.time_alive = game.agent.time_alive + 1

\* one of the two tiles step_coinrun samples at the agent's position is a ladder
LadderSampled(g) ==
    LET near_x == Trunc(g.agent.x + SCALE \div 2)
    IN  \/ get_elem(g.maze, near_x, Trunc(g.agent.y + 2 * (SCALE \div 10))) = LADDER
        \/ get_elem(g.maze, near_x, Trunc(g.agent.y - 2 * (SCALE \div 10))) = LADDER

\* C28 as stated: after the agent's step ladder_mode is set exactly when a
\* ladder tile was sampled and the vertical input is not zero
C28_LadderModeFromInput ==
    [][ AgentStepped =>
          (game'.agent.ladder_mode <=> (LadderSampled(game) /\ game'.agent.action_dy # 0)) ]_vars

\* C28 amended: after the agent's step ladder_mode is set if a ladder tile
\* was sampled and the vertical input is not zero, cleared if no ladder tile
\* was sampled, and as it was before the tick if a ladder tile was sampled
\* and the vertical input is zero
C28_LadderModeKept ==
    [][ AgentStepped =>
          game'.agent.ladder_mode =
             (IF ~LadderSampled(game) THEN FALSE
              ELSE IF game'.agent.action_dy # 0 THEN TRUE
              ELSE game.agent.ladder_mode) ]_vars

\* C28 witness: the agent climbed in the first tick and holds on to the
\* ladder in the second, without vertical input
C28_Witness ==
    /\ game.ticks = 2 /\ game.agent.time_alive = 2
    /\ game.agent.ladder_mode /\ game.agent.action_dy = 0
    /\ game.agent.y > Flt(1)
    /\ LadderSampled(game)

\* C29: in a tick whose agent step is not in ladder mode, an agent with
\* vy = 0, a positive spring and no vertical input leaves the velocity
\* update with vy = MAX_JUMP whatever the spring held, with JUMP_PENALTY
\* subtracted once and with spring = 0 at the end of the tick; in every other
\* case off the ladder the update leaves vy - GRAVITY and subtracts nothing
C29_JumpRelease ==
    [][ (AgentStepped /\ ~game'.agent.ladder_mode) =>
          IF game.agent.spring > 0 /\ game.agent.vy = 0 /\ game'.agent.action_dy = 0
            THEN /\ game'.agent.launched = << Val(MAX_JUMP), 1 >>
                 /\ game'.agent.spring = 0
                 /\ game'.agent.reward = game.agent.reward - JUMP_PENALTY
            ELSE game'.agent.launched = << game.agent.vy - Val(GRAVITY), 0 >> ]_vars

\* C29 witness: a jump released in the fourth tick, the agent in the air
\* at max_jump
C29_Witness ==
    /\ game.ticks = 4
    /\ game.agent.launched = << Val(MAX_JUMP), 1 >>
    /\ game.agent.vy = Val(MAX_JUMP)
    /\ game.agent.y > Flt(Trunc(game.agent.y))
    /\ game.agent.spring = 0

\* C30 as stated: a tick that starts with is_killed set leaves the agent's
\* position, velocity, spring, time_alive and the coins as they were and
\* moves both countdowns on by one
C30_KilledTickFrozen ==
    [][ game.agent.is_killed =>
          /\ game'.agent.x = game.agent.x /\ game'.agent.y = game.agent.y
          /\ game'.agent.vx = game.agent.vx /\ game'.agent.vy = game.agent.vy
          /\ game'.agent.spring = game.agent.spring
          /\ game'.agent.time_alive = game.agent.time_alive
          /\ game'.maze.coins = game.maze.coins
          /\ game'.agent.killed_animation_frame_cnt = game.agent.killed_animation_frame_cnt - 1
          /\ game'.agent.finished_level_frame_cnt = game.agent.finished_level_frame_cnt - 1 ]_vars

\* C30 amended: a tick that starts with is_killed set never steps the agent.
\* If it is an animation frame (collect_data, death countdown above 1) it
\* leaves agent and grid as they were and moves both countdowns on by one;
\* if not, it resets the episode, countdowns included
C30_KilledTick ==
    [][ game.agent.is_killed =>
          IF AnimationTick(game)
            THEN /\ game'.agent.x = game.agent.x /\ game'.agent.y = game.agent.y
                 /\ game'.agent.vx = game.agent.vx /\ game'.agent.vy = game.agent.vy
                 /\ game'.agent.spring = game.agent.spring
                 /\ game'.agent.time_alive = game.agent.time_alive
                 /\ game'.maze = game.maze
                 /\ game'.agent.is_killed
                 /\ game'.agent.killed_animation_frame_cnt =
                       game.agent.killed_animation_frame_cnt - 1
                 /\ game'.agent.finished_level_frame_cnt =
                       game.agent.finished_level_frame_cnt - 1
            ELSE FreshEpisode(game') /\ game'.agent.launched = << >> ]_vars

\* C30 witness: the death countdown has been played out to its last frame
C30_Witness ==
    /\ game.agent.is_killed /\ game.agent.collect_data
    /\ game.agent.killed_animation_frame_cnt = 1
    /\ game.ticks = DEATH_ANIM_LENGTH

(* ------------------- claims on the random generators ------------------- *)
\* the RandGen object a tick of instance i draws from, for a monster's pause
\* and for the level seed of state_reset: the one static generator
RngOf(i) == "global_rand_gen"

\* worker w is inside the body of a tick that draws a level seed: the
\* episode of its instance is over, so the tick runs state_reset
TickDraws(w) == wpc[w] = "body" /\ St(todo[w]).is_terminated

\* C25: two workers that are inside ticks drawing random numbers at the
\* same time never draw from the same generator
C25_RngOwnedByOneWorker ==
    \A w1, w2 \in Workers :
        (w1 # w2 /\ TickDraws(w1) /\ TickDraws(w2)) =>
            (todo[w1] # todo[w2] /\ RngOf(todo[w1]) # RngOf(todo[w2]))

\* the set of level seeds fixed by initialize_args when NUM_LEVELS > 0
PoolOf(g) ==
    IF g.training_sets_seed # -1
      THEN { PreDrawn(Seeded(g.training_sets_seed), g.NUM_LEVELS)[i] : i \in 1..g.NUM_LEVELS }
      ELSE 0..(g.NUM_LEVELS - 1)

\* C26: with NUM_LEVELS > 0 every state_reset takes its level seed from one
\* set of at most NUM_LEVELS values fixed by initialize_args, the pre-drawn
\* seeds if training_sets_seed was given and 0..NUM_LEVELS-1 if not; with
\* NUM_LEVELS = 0 the seed is the value drawn, as an int
C26_SeedFromPool ==
    game.resets > 0 =>
        IF game.NUM_LEVELS > 0
          THEN /\ game.level_seed \in PoolOf(game)
               /\ Cardinality(PoolOf(game)) <= game.NUM_LEVELS
          ELSE game.level_seed = ToInt(game.raw)

\* C26 witness: resets with a pool of pre-drawn seeds have used its last
\* entry, after a draw for a monster in between
C26_Witness ==
    /\ game.NUM_LEVELS > 1 /\ game.USE_LEVEL_SET
    /\ game.resets > 1 /\ game.draws > 0
    /\ game.level_seed = game.LEVEL_SEEDS[game.NUM_LEVELS]

(* ------------------------ claims on the monsters ---------------------- *)
\* the tick that starts in g runs state_reset, which replaces the grid and
\* its monsters
GridReplaced(g) == g.maze.is_terminated /\ ~AnimationTick(g)

Dead(g) == { i \in DOMAIN g.monsters : g.monsters[i].is_dead }

Markers == {FLYING_MONSTER, WALKING_MONSTER, GROUND_MONSTER}

\* the cells remove_traces_add_monsters has been through
Swept(g) ==
    { <<1 + (k % (g.maze.w - 2)), 1 + (k \div (g.maze.w - 2))>> : k \in 0..(g.gen.cell - 1) }

\* the precondition of a monster of the list at the cell it was made for
WellPlaced(m, mo) ==
    /\ mo.x = Flt(Trunc(mo.x)) /\ mo.y = Flt(Trunc(mo.y))
    /\ mo.is_walking => /\ ~is_wall(get_elem(m, Trunc(mo.x) - 1, Trunc(mo.y)), FALSE)
                        /\ ~is_wall(get_elem(m, Trunc(mo.x) + 1, Trunc(mo.y)), FALSE)
    /\ ~mo.is_flying => is_wall(get_elem(m, Trunc(mo.x), Trunc(mo.y) - 1), FALSE)

\* C32: every monster in the list of a generated level has, at its spawn
\* cell, no wall to its left or right if it walks and a solid wall beneath
\* if it does not fly; a marker that fails this makes no monster; either way
\* the marker's cell becomes empty, so that no monster marker and no trace
\* is left in the grid.
C32_MonstersWellPlaced ==
    /\ []( ("gen" \in DOMAIN game /\ game.gen.at \in {"traces", "done"} /\ game.ticks = 0) =>
             /\ \A i \in DOMAIN game.monsters : WellPlaced(game.maze, game.monsters[i])
             /\ \A c \in Swept(game) : get_elem(game.maze, c[1], c[2]) \notin Markers \cup {TRACE} )
    /\ [][ ("gen" \in DOMAIN game /\ game.gen.at = "traces") =>
             LET x == 1 + (game.gen.cell % (game.maze.w - 2))
                 y == 1 + (game.gen.cell \div (game.maze.w - 2))
                 c == get_elem(game.maze, x, y)
             IN  /\ Len(game'.monsters) \in {Len(game.monsters), Len(game.monsters) + 1}
                 /\ SubSeq(game'.monsters, 1, Len(game.monsters)) = game.monsters
                 /\ c \in Markers => get_elem(game'.maze, x, y) = SPACE
                 /\ c \in Markers =>
                      (Len(game'.monsters) = Len(game.monsters) + 1
                         <=> WellPlaced(game'.maze, NewMonster(x, y, FALSE, c = WALKING_MONSTER, "bee")))
                 /\ Len(game'.monsters) = Len(game.monsters) + 1 =>
                      /\ Trunc(game'.monsters[Len(game'.monsters)].x) = x
                      /\ Trunc(game'.monsters[Len(game'.monsters)].y) = y ]_vars

\* C32 witness: a level is made whose list holds a walking monster, with a
\* marker dropped on the way
C32_Witness ==
    /\ "gen" \in DOMAIN game /\ game.gen.at = "done" /\ game.ticks = 0
    /\ game.gen.dropped > 0
    /\ \E i \in DOMAIN game.monsters : game.monsters[i].is_walking

(* --------------------------- the coin counter -------------------------- *)
\* the level of RowsA with a gem beside its coin
RowsH == [RowsA EXCEPT ![4][3] = COIN_OBJ2]

\* one State at the start of an episode on a level with gems, its counter as
\* place_coins leaves it
InitCoins ==
    /\ EngineInit
    /\ \E rows \in {RowsG, RowsH}, x \in StartXs, y \in StartYs, lm \in BOOLEAN, cd \in BOOLEAN :
         /\ game = GameAt([maze |-> MazeOf(rows), monsters |-> << >>],
                          AgentAt(x, y, 0, 0, lm, FALSE, 0, cd))
         /\ Fits(game)

NextCoins == GenPlatform \/ GenCoin \/ GenTraces \/ GridTick

\* levels made by state_reset and episodes on levels with gems
SpecCoins == (InitGen \/ InitCoins) /\ [][NextCoins]_vars

\* coin tiles left in the grid
CoinTiles(m) == Cardinality({ i \in DOMAIN m.walls : is_coin(m.walls[i]) })

\* C36: in every state of an episode maze->coins is non-negative and is the
\* number of coin tiles left in the grid plus the number of gem tiles placed
\* when the level was made; in a level made with a gem it is never zero and
\* the level-finished countdown is never started.
C36_CoinCounter ==
    ("gen" \in DOMAIN game => game.gen.at = "done") =>
       /\ game.maze.coins >= 0
       /\ game.maze.coins = CoinTiles(game.maze) + game.maze.gems
       /\ game.maze.gems >= 1 =>
            /\ game.maze.coins > 0
            /\ game.agent.finished_level_frame_cnt = 0

\* C36 witness: the agent has collected the only coin and the gem of the
\* level; the counter stands at one and the episode goes on
C36_Witness ==
    /\ game.ticks > 0
    /\ game.maze.gems = 1 /\ Gems(game.maze) = 0
    /\ CoinTiles(game.maze) = 0
    /\ game.maze.coins = 1
    /\ ~game.maze.is_terminated
    /\ game.agent.finished_level_frame_cnt = 0

(* ------------------------ claims on state_reset ------------------------ *)
\* C34: a reset adds exactly 1 to game_id, which nothing else changes, sets
\* state->time to 0, replaces the grid by a new grid that is not terminated
\* and that the agent stands in, and puts the agent at that grid's spawn
\* position with zero velocity, charge and input, time_alive 0, reward_sum 0,
\* is_killed and power_up_mode false and both countdowns 0.
C34_FullReset ==
    [][ IF GridReplaced(game)
          THEN /\ game'.game_id = game.game_id + 1
               /\ game'.time = 0
               /\ \E lv \in Levels : game'.maze = lv.maze /\ game'.monsters = lv.monsters
               /\ ~game'.maze.is_terminated
               /\ game'.agent.x = Flt(game'.maze.spawnpos[1])
               /\ game'.agent.y = Flt(game'.maze.spawnpos[2])
               /\ game'.agent.vx = 0 /\ game'.agent.vy = 0 /\ game'.agent.spring = 0
               /\ game'.agent.action_dx = 0 /\ game'.agent.action_dy = 0
               /\ game'.agent.time_alive = 0 /\ game'.agent.reward_sum = 0
               /\ ~game'.agent.is_killed /\ ~game'.agent.power_up_mode
               /\ game'.agent.killed_animation_frame_cnt = 0
               /\ game'.agent.finished_level_frame_cnt = 0
          ELSE /\ game'.game_id = game.game_id
               /\ game'.time = game.time + (IF AnimationTick(game) THEN 0 ELSE 1) ]_vars

\* C34 witness: an agent that earned a reward in the tick that ended its
\* episode has been reset in the second tick, into the next episode
C34_Witness ==
    /\ game.ticks = 2
    /\ game.game_id = 1 /\ game.time = 0
    /\ game.agent.reward > 0 /\ game.agent.reward_sum = 0
    /\ game.agent.x = Flt(game.maze.spawnpos[1]) /\ game.agent.y = Flt(game.maze.spawnpos[2])
    /\ ~game.maze.is_terminated

(* ----------------------- claims on the admission ----------------------- *)
\* where the flags agent_ready and step_in_progress put an instance
Phase(s) ==
    IF ~s.agent_ready /\ ~s.step_in_progress THEN "idle"
    ELSE IF s.agent_ready /\ ~s.step_in_progress THEN "ready"
    ELSE IF s.agent_ready /\ s.step_in_progress THEN "in-progress"
    ELSE "in-progress, not ready"

PhaseMoves ==
    { <<"idle", "ready">>, <<"ready", "in-progress">>, <<"in-progress", "idle">> }

\* C33: with a caller that alternates submit and wait, the flags of an
\* instance move only idle -> ready -> in-progress -> idle; in every state
\* in-progress implies ready, an instance is in the queue at most once and
\* only while ready and not in progress, and the asserts of the worker on
\* the flags hold where they are evaluated.
C33_AdmissionStateMachine ==
    /\ [](/\ ~aborted
          /\ \A i \in Instances :
                /\ St(i).step_in_progress => St(i).agent_ready
                /\ InQueue(i) <= 1
                /\ InQueue(i) = 1 => Phase(St(i)) = "ready"
          /\ \A w \in Workers :
                /\ wpc[w] = "mark" => St(todo[w]).agent_ready
                /\ wpc[w] = "finish" =>
                      St(todo[w]).agent_ready /\ St(todo[w]).step_in_progress)
    /\ [][ \A i \in Instances :
              \/ Phase(vstates'[i[1]][i[2]]) = Phase(St(i))
              \/ <<Phase(St(i)), Phase(vstates'[i[1]][i[2]])>> \in PhaseMoves ]_vars

\* C33 witness: of a batch of two, one instance has been stepped and is idle
\* again, the other is in progress in the body of its tick
C33_Witness ==
    \E h \in h2s :
        /\ Nenvs(h) = 2
        /\ \E e, f \in 1..2 :
              /\ Phase(St(<<h, e>>)) = "idle" /\ St(<<h, e>>).reward = 1
              /\ Phase(St(<<h, f>>)) = "in-progress"
              /\ \E w \in Workers : wpc[w] = "body" /\ todo[w] = <<h, f>>

(* ------------------- claims on what vec_wait reports ------------------- *)
\* C35: in every entry vec_wait writes, done implies new_level; new_level
\* without done is written only by the first vec_wait after vec_create, and
\* the first vec_wait writes just that.
C35_DoneImpliesNewLevel ==
    /\ [](\A i \in Instances :
             /\ St(i).game_over => St(i).is_new_level
             /\ St(i).waited => (St(i).is_new_level => St(i).game_over)
             /\ ~St(i).waited => (St(i).is_new_level /\ ~St(i).game_over))
    /\ [][ Len(out') = Len(out) + 1 =>
             LET e == out'[Len(out')]
                 s == St(<<ch, Len(out')>>)
             IN  /\ e.done => e.new_level
                 /\ (e.new_level /\ ~e.done) <=> ~s.waited ]_vars

\* C35 witness: vec_wait reports an instance that a tick has reset, and
\* beside it one of which it has reported the first level before
C35_Witness ==
    /\ cpc = "wait_done" /\ Len(out) = 2
    /\ out[1].done /\ out[1].new_level
    /\ ~out[2].done /\ ~out[2].new_level

(* --------------------------- claims on close --------------------------- *)
\* C38: vec_close changes no instance, no worker and no queue entry; a tick
\* whose body a worker has begun is carried through, the flags cleared at its
\* end, also when the group is closed meanwhile; a worker that reaches an
\* instance whose group is closed and released does not step it: the
\* instance is left as it is, agent_ready and step_in_progress set, and the
\* worker is back at the top of its loop, the process running.
C38_CloseCancelsQueuedOnly ==
    /\ [](\A w \in Workers :
             (wpc[w] \in {"body", "finish"} /\ todo[w][1] \notin h2s) =>
                 ENABLED stepping_thread(w))
    /\ [][ /\ h2s' # h2s /\ h2s' \subseteq h2s =>
                 /\ vstates' = vstates /\ workers_todo' = workers_todo
                 /\ wpc' = wpc /\ todo' = todo /\ ~aborted'
           /\ \A w \in Workers :
                 /\ (wpc[w] = "lock" /\ wpc'[w] # "lock") =>
                       IF Alive(todo[w][1])
                         THEN wpc'[w] = "body" /\ todo'[w] = todo[w]
                         ELSE /\ vstates' = vstates
                              /\ St(todo[w]).agent_ready /\ St(todo[w]).step_in_progress
                              /\ wpc'[w] = "check" /\ todo'[w] = NoState
                              /\ ~aborted'
                 /\ (wpc[w] = "body" /\ wpc'[w] # "body") =>
                       /\ wpc'[w] = "finish" /\ todo'[w] = todo[w]
                       /\ \E o \in TickOutcomes :
                             vstates'[todo[w][1]][todo[w][2]] =
                                 [Tick(St(todo[w]), o) EXCEPT !.state_mutex = FALSE]
                 /\ (wpc[w] = "finish" /\ wpc'[w] # "finish") =>
                       /\ wpc'[w] = "check" /\ ~aborted'
                       /\ Phase(vstates'[todo[w][1]][todo[w][2]]) = "idle" ]_vars

\* C38 witness: of a batch of two submitted to a group that was then closed,
\* one instance has been stepped and is idle, the other was passed over by
\* the worker that dequeued it and is still ready and in progress
C38_Witness ==
    \E h \in Handles :
        /\ h \notin h2s /\ Nenvs(h) = 2
        /\ \E e, f \in 1..2 :
              /\ Phase(St(<<h, e>>)) = "idle" /\ St(<<h, e>>).reward = 1
              /\ Phase(St(<<h, f>>)) = "in-progress"
              /\ Occurrences(<<h, f>>) = 0
        /\ ~aborted

(* ------------------------- the order of the locks ----------------------- *)
(* The four kinds of mutex of the engine and the order in which every       *)
(* function takes and leaves them, a QMutexLocker being an acquire at its   *)
(* declaration and a release at the end of its scope, and                   *)
(* QWaitCondition::wait(&h2s_mutex, 1000) a release followed, on waking, by *)
(* an acquire. "game" holds, for every thread, what is left of the function *)
(* it runs; what a thread holds follows from that.                          *)
LockCallers == 2     \* threads calling the vec_ functions

LockThreads == 1..(LockCallers + NumWorkers)
IsCaller(t) == t <= LockCallers
LockGroups == 1..MaxGroups

Acq(l) == << <<"acq", l>> >>
Rel(l) == << <<"rel", l>> >>
H2sMutex == <<"h2s_mutex">>
StatesMutex(g) == <<"states_mutex", g>>
StepMutex(g, e) == <<"step_mutex", g, e>>
StateMutex(g, e) == <<"state_mutex", g, e>>

\* the body of a loop over the instances, once for each of e..MaxEnvs
RECURSIVE ForEachEnv(_, _, _)
ForEachEnv(g, e, inner) ==
    IF e > MaxEnvs THEN << >>
    ELSE Acq(IF inner = "step" THEN StepMutex(g, e) ELSE StateMutex(g, e))
         \o Rel(IF inner = "step" THEN StepMutex(g, e) ELSE StateMutex(g, e))
         \o ForEachEnv(g, e + 1, inner)

vstate_find_Locks == Acq(H2sMutex) \o Rel(H2sMutex)

vec_create_Locks == Acq(H2sMutex) \o Rel(H2sMutex)

vec_close_Locks == vstate_find_Locks \o Acq(H2sMutex) \o Rel(H2sMutex)

vec_step_async_Locks(g) ==
    vstate_find_Locks
    \o Acq(H2sMutex) \o Acq(StatesMutex(g)) \o ForEachEnv(g, 1, "step")
    \o Rel(StatesMutex(g)) \o Rel(H2sMutex)

\* one pass of the loop of vec_wait, up to the test of all_steps_completed
PollPass(g) ==
    Acq(H2sMutex) \o Acq(StatesMutex(g)) \o ForEachEnv(g, 1, "step")
    \o Rel(StatesMutex(g))

\* the wait on wait_for_step_completed and the end of the pass
PollSleep == Rel(H2sMutex) \o Acq(H2sMutex) \o Rel(H2sMutex)

\* the copy of the results, once the loop is left
CopyOut(g) ==
    Acq(StatesMutex(g)) \o ForEachEnv(g, 1, "state") \o Rel(StatesMutex(g))

\* what is left of vec_wait at "break"
AfterPoll(g) == Rel(H2sMutex) \o CopyOut(g)

\* vec_wait when every pass finds all steps completed
vec_wait_Locks(g) == vstate_find_Locks \o PollPass(g) \o AfterPoll(g)

\* a pass of the inner loop of stepping_thread that finds the queue empty
WorkerSleep == Acq(H2sMutex) \o Rel(H2sMutex) \o Acq(H2sMutex) \o Rel(H2sMutex)

\* what is left of a pass of stepping_thread at the test of belongs_to
AfterBody(g, e) ==
    Rel(StateMutex(g, e)) \o Acq(StepMutex(g, e)) \o Rel(StepMutex(g, e))

\* a worker that marks its instance in progress before it leaves the queue
WorkerStep_MarkInside(g, e) ==
    Acq(StepMutex(g, e)) \o Acq(H2sMutex) \o Rel(H2sMutex) \o Rel(StepMutex(g, e))
    \o Acq(StateMutex(g, e)) \o AfterBody(g, e)

\* a pass that takes an instance from the queue, marks it, and runs the body
WorkerStep(g, e) ==
    Acq(H2sMutex) \o Rel(H2sMutex)
    \o Acq(StepMutex(g, e)) \o Rel(StepMutex(g, e))
    \o Acq(StateMutex(g, e)) \o AfterBody(g, e)

CallerPrograms ==
    {vec_create_Locks, vec_close_Locks}
    \cup {vec_step_async_Locks(g) : g \in LockGroups}
    \cup {vec_wait_Locks(g) : g \in LockGroups}

WorkerPrograms ==
    {WorkerSleep}
    \cup {WorkerStep(g, e) : g \in LockGroups, e \in 1..MaxEnvs}

\* the locks a thread holds: those it has yet to release without taking
\* them first
Held(rest) ==
    {rest[i][2] : i \in {k \in 1..Len(rest) :
        /\ rest[k][1] = "rel"
        /\ \A j \in 1..(k - 1) : rest[j] # <<"acq", rest[k][2]>>}}

Returned(rest) == rest = << >>
Wants(rest) ==
    IF ~Returned(rest) /\ rest[1][1] = "acq" THEN {rest[1][2]} ELSE {}

InitLocks ==
    /\ EngineInit
    /\ game = [t \in LockThreads |-> << >>]

\* a caller calls a function, a worker starts a pass of its loop
LockBegin(t) ==
    /\ Returned(game[t])
    /\ \E p \in (IF IsCaller(t) THEN CallerPrograms ELSE WorkerPrograms) :
          game' = [game EXCEPT ![t] = p]
    /\ UNCHANGED engine

\* QMutex::lock of a mutex nobody holds (QMutex is not recursive)
LockAcquire(t) ==
    /\ Wants(game[t]) # {}
    /\ \A u \in LockThreads : Wants(game[t]) \cap Held(game[u]) = {}
    /\ game' = [game EXCEPT ![t] = Tail(@)]
    /\ UNCHANGED engine

LockRelease(t) ==
    /\ ~Returned(game[t]) /\ game[t][1][1] = "rel"
    /\ game' = [game EXCEPT ![t] = Tail(@)]
    /\ UNCHANGED engine

\* vec_wait finds a step not completed: it waits on wait_for_step_completed
\* and makes another pass
LockPollAgain(t) ==
    /\ IsCaller(t)
    /\ \E g \in LockGroups :
          /\ game[t] = AfterPoll(g)
          /\ game' = [game EXCEPT ![t] = PollSleep \o PollPass(g) \o AfterPoll(g)]
    /\ UNCHANGED engine

\* the worker finds the group gone: "continue" leaves state_mutex and the pass
LockContinue(t) ==
    /\ ~IsCaller(t)
    /\ \E g \in LockGroups, e \in 1..MaxEnvs : game[t] = AfterBody(g, e)
    /\ game' = [game EXCEPT ![t] = << >>]
    /\ UNCHANGED engine

NextLocks ==
    \E t \in LockThreads :
        \/ LockBegin(t) \/ LockAcquire(t) \/ LockRelease(t)
        \/ LockPollAgain(t) \/ LockContinue(t)

SpecLocks == InitLocks /\ [][NextLocks]_vars

\* the place of a mutex in the order registry, group, instance
LockRank(l) ==
    CASE l[1] = "h2s_mutex" -> 1
      [] l[1] = "states_mutex" -> 2
      [] OTHER -> 3

\* the threads t waits for, and those reached by following the waiting
WaitsFor(t) == {u \in LockThreads : Wants(game[t]) \cap Held(game[u]) # {}}

RECURSIVE WaitChain(_, _)
WaitChain(ts, n) ==
    IF n = 0 THEN ts
    ELSE WaitChain(ts \cup UNION {WaitsFor(u) : u \in ts}, n - 1)

\* C37: no mutex is held by two threads; a thread that takes a mutex holds
\* only mutexes that come before it in the order registry, group, instance
\* (and so never both mutexes of an instance, nor the mutexes of two
\* instances); no thread waits, through the threads that hold what it
\* wants, for itself; and of the threads inside a function one at least is
\* not waiting for a mutex that is held.
C37_NoLockCycle ==
    /\ \A t, u \in LockThreads :
          t # u => Held(game[t]) \cap Held(game[u]) = {}
    /\ \A t \in LockThreads : \A l \in Wants(game[t]) : \A k \in Held(game[t]) :
          LockRank(k) < LockRank(l)
    /\ \A t \in LockThreads :
          t \notin WaitChain(WaitsFor(t), Cardinality(LockThreads))
    /\ (\E t \in LockThreads : ~Returned(game[t])) =>
          \E t \in LockThreads : ~Returned(game[t]) /\ WaitsFor(t) = {}

\* C37 witness: a worker runs the body of a tick holding the state_mutex of
\* an instance; a caller in the copy of vec_wait holds the group's
\* states_mutex and waits for that state_mutex; a second caller, in a
\* submit, holds h2s_mutex and waits for the states_mutex; the other worker
\* waits for h2s_mutex
C37_Witness ==
    \E w, v \in LockThreads, c, d \in LockThreads, g \in LockGroups, e \in 1..MaxEnvs :
        /\ ~IsCaller(w) /\ ~IsCaller(v) /\ IsCaller(c) /\ IsCaller(d)
        /\ Held(game[w]) = {StateMutex(g, e)} /\ Wants(game[w]) = {}
        /\ Held(game[c]) = {StatesMutex(g)} /\ Wants(game[c]) = {StateMutex(g, e)}
        /\ Held(game[d]) = {H2sMutex} /\ Wants(game[d]) = {StatesMutex(g)}
        /\ Held(game[v]) = {} /\ Wants(game[v]) = {H2sMutex}

====
